---- MODULE Spec2Model ----
(***************************************************************************)
(* The parts of the application, each with its own variables and its own   *)
(* specification; a specification holds the variables of the other parts   *)
(* at rest.                                                                *)
(*                                                                         *)
(* Spec: the conversation API of src/app/api/voice/conversation/route.ts:  *)
(* the in-memory conversation store, the four request handlers behind POST *)
(* and the keyword-driven step machine of generateAIResponse.              *)
(* ExtractorSpec: the stateless requirements endpoint (POST,               *)
(* analyzeTranscriptForRequirements, generateConversationResponse).        *)
(* GeneratorSpec: the app generator of the page (generateAppFromIdea,      *)
(* generateWebFiles, generateMobileFiles, generateAppName).                *)
(* PageSpec: the React state of the page (Home) with handleGenerate,       *)
(* startBuild and startAllBuilds and their timer continuations;            *)
(* BuildFairSpec: its builds from a generated app on, the timers firing.   *)
(* RaceSpec: the conversation API with send_message calls that overlap at  *)
(* the await of handleSendMessage.                                         *)
(* VoiceSpec: the page with its two input tabs and the voice-to-app        *)
(* handlers; RecognitionSpec: the speech recognition of the idea field.    *)
(* ChatFairSpec: the conversation dialog of the page, its reply timers     *)
(* firing.                                                                 *)
(*                                                                         *)
(* The store is a JavaScript Map from conversation ids to ConversationState*)
(* objects.  The objects are mutable and the Map holds references, so the  *)
(* model keeps a heap of objects and a map from ids to heap addresses; an  *)
(* object that no Map entry refers to any more is garbage and leaves the   *)
(* heap.                                                                   *)
(* Strings are TLA+ strings; toLowerCase and includes are computed         *)
(* character by character.  The timestamp and the messageId of a           *)
(* ConversationMessage are written from the clock and from Math.random()   *)
(* and read by no handler, except for the duration named in the summary    *)
(* sentence of end_conversation; both fields and that duration are left    *)
(* out, and a conversation id is its random suffix.                        *)
(***************************************************************************)
EXTENDS Integers, Sequences, FiniteSets, TLC

VARIABLES
    conversations,  \* the Map: conversation id -> address of its state object
    heap,           \* address -> the ConversationState object at it
    response,       \* the request just handled and the HTTP response to it
    processRequest,         \* the body of the request the endpoint handled
    requirementsAnalysis,   \* the analysis given to the response selector
    conversationResponse,   \* the response the selector returned
    nextState,              \* the nextState the endpoint answered
    generatorArguments,     \* the arguments of generateAppFromIdea
    generatorResult,        \* the GeneratedApp it returned
    idea,           \* useState: the text of the idea field
    platform,       \* useState: the three platform flags
    buildSystem,    \* useState: 'eas' or 'capacitor'
    isGenerating,   \* useState
    generatedApp,   \* useState: null or the GeneratedApp
    buildStatuses,  \* useState: the list of BuildStatus
    generation,     \* the handleGenerate suspended at its await, or none
    builds,         \* the startBuild and startAllBuilds runs suspended at an await
    toast,          \* the title of the toast shown last
    calls,          \* the handleSendMessage calls suspended at their await
    inputMode,      \* useState: the input tab shown, 'text' or 'voice'
    voiceTranscript,    \* useState
    voiceRequirements,  \* useState: null or the requirements extracted
    isListening,    \* useState
    isRecording,    \* useState
    recognitions,   \* the SpeechRecognition objects that are not garbage
    recognitionRef, \* recognitionRef.current: one of the recognitions
    effect,         \* the isListening of the last run of the effect
    conversationMessages,   \* useState: the messages of the dialog
    timers          \* the reply timers set and not fired, oldest first

conversationVars == <<conversations, heap, response>>

extractorVars ==
    <<processRequest, requirementsAnalysis, conversationResponse, nextState>>

generatorVars == <<generatorArguments, generatorResult>>

pageVars ==
    <<idea, platform, buildSystem, isGenerating, generatedApp, buildStatuses,
      generation, builds, toast>>

voiceVars ==
    <<inputMode, voiceTranscript, voiceRequirements, isListening, isRecording,
      recognitions, recognitionRef, effect>>

chatVars == <<conversationMessages, timers>>

restVars == <<calls, voiceVars, chatVars>>

vars == <<conversationVars, extractorVars, generatorVars, pageVars, restVars>>

----------------------------------------------------------------------------
(* Bounds of the model. *)

\* At most MaxConversations state objects are allocated by start.
MaxConversations == 2

\* At most MaxMessages messages are held by all conversations together.
MaxMessages == 7

----------------------------------------------------------------------------
(* JSON values of a request body. *)

Undefined == [type |-> "undefined"]

Str(s) == [type |-> "string", value |-> s]

\* The utterances a client sends as body.message; a body without the field
\* gives undefined.
MessageTexts ==
    { "I want to build a todo app",
      "It should work on web and mobile",
      "Yes, that's exactly right",
      "Make it GOOD",
      "Android" }

Messages == { Str(s) : s \in MessageTexts } \cup { Undefined }

----------------------------------------------------------------------------
(* String.prototype.toLowerCase and String.prototype.includes. *)

UpperCaseLetters == "ABCDEFGHIJKLMNOPQRSTUVWXYZ"
LowerCaseLetters == "abcdefghijklmnopqrstuvwxyz"

LowerCaseChar(c) ==
    IF \E i \in 1..Len(UpperCaseLetters) : SubSeq(UpperCaseLetters, i, i) = c
    THEN LET i == CHOOSE j \in 1..Len(UpperCaseLetters) :
                      SubSeq(UpperCaseLetters, j, j) = c
         IN  SubSeq(LowerCaseLetters, i, i)
    ELSE c

\* s.toLowerCase(), character by character
RECURSIVE LowerCaseOf(_)
LowerCaseOf(s) ==
    IF Len(s) = 0 THEN ""
    ELSE LowerCaseChar(SubSeq(s, 1, 1)) \o LowerCaseOf(SubSeq(s, 2, Len(s)))

\* s.includes(keyword): keyword occurs at some position of s
OccursIn(s, keyword) ==
    \E i \in 1..(Len(s) - Len(keyword) + 1) :
        SubSeq(s, i, i + Len(keyword) - 1) = keyword

\* appKeywords with its last keyword forgotten
appKeywordsWithoutMake == <<"app", "application", "build", "create", "develop">>

appKeywords == <<"app", "application", "build", "create", "develop", "make">>

platformKeywords == <<"web", "mobile", "android", "ios", "iphone", "website">>

featureKeywords == <<"feature", "function", "do", "should", "need", "want">>

confirmKeywords == <<"yes", "correct", "right", "exactly", "perfect", "good">>

\* The substrings analyzeUserMessage looks for.
analysisKeywords ==
    <<"web", "android", "mobile", "ios", "iphone", "login", "user", "data",
      "storage", "notification", "social">>

\* The two string functions are computed once for the utterances and the
\* keywords of the model and looked up afterwards.
LowerCased == [s \in MessageTexts |-> LowerCaseOf(s)]

Keywords ==
    LET all == appKeywords \o platformKeywords \o featureKeywords
                   \o confirmKeywords \o analysisKeywords
    IN  { all[i] : i \in 1..Len(all) }

Occurrences ==
    [s \in MessageTexts \cup { LowerCased[t] : t \in MessageTexts } |->
        { k \in Keywords : OccursIn(s, k) }]

toLowerCase(s) ==
    IF s \in DOMAIN LowerCased THEN LowerCased[s] ELSE LowerCaseOf(s)

includes(s, keyword) ==
    IF s \in DOMAIN Occurrences /\ keyword \in Keywords
    THEN keyword \in Occurrences[s]
    ELSE OccursIn(s, keyword)

\* keywords.some(keyword => message.includes(keyword))
some(keywords, message) ==
    \E i \in 1..Len(keywords) : includes(message, keywords[i])

----------------------------------------------------------------------------
(* The keyword classifiers. *)

containsAppIdea(message) == some(appKeywords, message)

containsPlatformInfo(message) == some(platformKeywords, message)

containsFeatureInfo(message) == some(featureKeywords, message)

containsConfirmation(message) == some(confirmKeywords, message)

----------------------------------------------------------------------------
(* Objects. *)

\* extractedRequirements: null
Null == [null |-> TRUE]

\* { ...a, ...b }: the own fields of a (none when a is null) overwritten by
\* those of b.
Spread(a, b) ==
    LET fa == IF a = Null THEN {} ELSE DOMAIN a
    IN  [k \in fa \cup DOMAIN b |-> IF k \in DOMAIN b THEN b[k] ELSE a[k]]

\* extends a list by one element when the test holds (if (...) list.push(x))
pushIf(list, test, x) == IF test THEN Append(list, x) ELSE list

\* content is a JSON value: body.message for a user message.
ConversationMessage(role, content) == [role |-> role, content |-> content]

GreetingContent ==
    "Hello! I'm your AI app development assistant. I'd love to help you create your perfect app. To get started, could you tell me what kind of app you'd like to build?"

ClosingContent ==
    "Thank you for sharing your app idea! I have a good understanding of what you want to create. You can now proceed to generate your app, or feel free to ask me any other questions."

AskPlatformsContent ==
    "That sounds like a great app idea! I can help you build that. Let me ask a few questions to make sure I understand exactly what you need. Which platforms would you like this app to work on - web, mobile, or both?"

AskAppKindContent ==
    "I'd love to help you create an app! Could you tell me what kind of app you have in mind? For example, is it a todo app, a fitness tracker, a recipe manager, or something else entirely?"

AskFeaturesContent ==
    "Perfect! Now, what specific features are most important to you? For example, do you need user accounts, data storage, notifications, or integration with other services?"

RestateContent ==
    "Excellent! I'm getting a clear picture of what you want. Just to make sure I understand correctly, you want an app with [summarize features]. Is that right?"

TellMoreContent ==
    "I'm listening! Tell me more about what you'd like your app to do. What are the main features or functionality you need?"

ReadyContent ==
    "Wonderful! I have all the information I need to create your app. You can now generate the app, or if you'd like to make any changes, just let me know!"

ClarifyContent ==
    "I want to make sure I get this exactly right. Could you clarify what you meant by [clarification point]?"

DefaultContent ==
    "I'm here to help you create your app! What would you like to discuss?"

----------------------------------------------------------------------------
(* analyzeUserMessage and generateAIResponse. *)

analyzeUserMessage(message) ==
    LET lowerMessage == toLowerCase(message)
        platforms ==
            pushIf(pushIf(pushIf(<<>>,
                includes(lowerMessage, "web"), "web"),
                includes(lowerMessage, "android") \/ includes(lowerMessage, "mobile"), "android"),
                includes(lowerMessage, "ios") \/ includes(lowerMessage, "iphone"), "ios")
        features ==
            pushIf(pushIf(pushIf(pushIf(<<>>,
                includes(lowerMessage, "login") \/ includes(lowerMessage, "user"), "authentication"),
                includes(lowerMessage, "data") \/ includes(lowerMessage, "storage"), "database"),
                includes(lowerMessage, "notification"), "push notifications"),
                includes(lowerMessage, "social"), "social features")
    IN  [initialRequirements |-> [platforms |-> platforms, features |-> features],
         platformRequirements |-> [platforms |-> platforms],
         featureRequirements |-> [features |-> features]]

\* userMessage.toLowerCase() on a value that is no string throws a
\* TypeError: the promise of generateAIResponse is rejected, the await in
\* handleSendMessage throws, and the request is answered 500 (POST returns
\* the handler's promise without awaiting it, so its catch does not run and
\* the framework answers).
Rejected == [rejected |-> "TypeError"]

\* The cases of the switch on conversation.currentStep.  The optional
\* fields extractedRequirements and requiresAction of a response are present
\* only in the branches that set them.

\* greetingResponse leading an app idea straight to clarification
greetingResponseSkipping(conversation, lowerMessage, analysis) ==
    IF containsAppIdea(lowerMessage)
    THEN [content |-> AskPlatformsContent,
          nextStep |-> "clarification",
          extractedRequirements |-> analysis.initialRequirements]
    ELSE [content |-> AskAppKindContent,
          nextStep |-> "greeting"]

\* case 'greeting'
greetingResponse(conversation, lowerMessage, analysis) ==
    IF containsAppIdea(lowerMessage)
    THEN [content |-> AskPlatformsContent,
          nextStep |-> "requirement_gathering",
          extractedRequirements |-> analysis.initialRequirements]
    ELSE [content |-> AskAppKindContent,
          nextStep |-> "greeting"]

\* requirementGatheringResponse with its first two tests in the other order
requirementGatheringFeatureFirst(conversation, lowerMessage, analysis) ==
    IF containsFeatureInfo(lowerMessage)
    THEN [content |-> RestateContent,
          nextStep |-> "clarification",
          extractedRequirements |->
              Spread(conversation.extractedRequirements,
                     analysis.featureRequirements)]
    ELSE IF containsPlatformInfo(lowerMessage)
    THEN [content |-> AskFeaturesContent,
          nextStep |-> "requirement_gathering",
          extractedRequirements |->
              Spread(conversation.extractedRequirements,
                     analysis.platformRequirements)]
    ELSE [content |-> TellMoreContent,
          nextStep |-> "requirement_gathering"]

\* case 'requirement_gathering'
requirementGatheringResponse(conversation, lowerMessage, analysis) ==
    IF containsPlatformInfo(lowerMessage)
    THEN [content |-> AskFeaturesContent,
          nextStep |-> "requirement_gathering",
          extractedRequirements |->
              Spread(conversation.extractedRequirements,
                     analysis.platformRequirements)]
    ELSE IF containsFeatureInfo(lowerMessage)
    THEN [content |-> RestateContent,
          nextStep |-> "clarification",
          extractedRequirements |->
              Spread(conversation.extractedRequirements,
                     analysis.featureRequirements)]
    ELSE [content |-> TellMoreContent,
          nextStep |-> "requirement_gathering"]

\* clarificationResponse without requiresAction in its first branch
clarificationResponseWithoutFlag(conversation, lowerMessage, analysis) ==
    IF containsConfirmation(lowerMessage)
    THEN [content |-> ReadyContent,
          nextStep |-> "completion"]
    ELSE [content |-> ClarifyContent,
          nextStep |-> "clarification"]

\* case 'clarification'
clarificationResponse(conversation, lowerMessage, analysis) ==
    IF containsConfirmation(lowerMessage)
    THEN [content |-> ReadyContent,
          nextStep |-> "completion",
          requiresAction |-> TRUE]
    ELSE [content |-> ClarifyContent,
          nextStep |-> "clarification"]

\* default: the steps confirmation and completion
defaultResponse(conversation, lowerMessage, analysis) ==
    [content |-> DefaultContent,
     nextStep |-> "greeting"]

generateAIResponse(conversation, userMessage) ==
    IF userMessage.type # "string" THEN Rejected
    ELSE
    LET lowerMessage == toLowerCase(userMessage.value)
        analysis == analyzeUserMessage(userMessage.value)
    IN  CASE conversation.currentStep = "greeting" ->
                greetingResponse(conversation, lowerMessage, analysis)
          [] conversation.currentStep = "requirement_gathering" ->
                requirementGatheringResponse(conversation, lowerMessage, analysis)
          [] conversation.currentStep = "clarification" ->
                clarificationResponse(conversation, lowerMessage, analysis)
          [] OTHER ->
                defaultResponse(conversation, lowerMessage, analysis)

\* generateConversationSummary naming messageCount as the number of AI
\* responses
summaryOfAllMessages(conversation) ==
    LET messageCount == Len(conversation.messages)
        userMessages ==
            Cardinality({ i \in 1..messageCount :
                            conversation.messages[i].role = "user" })
    IN  [userMessages |-> userMessages,
         aiResponses |-> messageCount]

\* `Conversation with ${userMessages} user messages and ${messageCount -
\* userMessages} AI responses, lasting ... seconds.`: the two counts of the
\* sentence.
generateConversationSummary(conversation) ==
    LET messageCount == Len(conversation.messages)
        userMessages ==
            Cardinality({ i \in 1..messageCount :
                            conversation.messages[i].role = "user" })
    IN  [userMessages |-> userMessages,
         aiResponses |-> messageCount - userMessages]

----------------------------------------------------------------------------
(* The store and the handlers. *)

\* All messages held by the objects of the heap h: what the bound
\* MaxMessages limits.
RECURSIVE MessagesHeld(_)
MessagesHeld(h) ==
    IF DOMAIN h = {} THEN 0
    ELSE LET a == CHOOSE x \in DOMAIN h : TRUE
         IN  Len(h[a].messages)
                 + MessagesHeld([x \in DOMAIN h \ {a} |-> h[x]])

\* The addresses handed out so far are 1..Allocated(h): the newest object
\* is never garbage.
Allocated(h) ==
    IF DOMAIN h = {} THEN 0
    ELSE CHOOSE a \in DOMAIN h : \A b \in DOMAIN h : b <= a

\* conversations.get(conversationId): the address of the object, 0 for
\* undefined.
get(conversationId) ==
    IF conversationId \in DOMAIN conversations
    THEN conversations[conversationId]
    ELSE 0

\* set building a Map of the one entry
setAlone(conversationId, address) ==
    [k \in {conversationId} |-> address]

\* The Map after conversations.set(conversationId, address)
set(conversationId, address) ==
    [k \in DOMAIN conversations \cup {conversationId} |->
        IF k = conversationId THEN address ELSE conversations[k]]

\* The heap h without the objects that neither the Map m nor a suspended
\* call refers to.
ReachableFrom(h, m, suspended) ==
    [a \in { m[k] : k \in DOMAIN m }
            \cup { suspended[i].conversation : i \in 1..Len(suspended) } |->
        h[a]]

\* The heap h without the objects the Map m does not refer to, while the
\* suspended calls stay as they are.
Reachable(h, m) == ReachableFrom(h, m, calls)

\* A conversation id that is no key of the Map.  Ids differ only in their
\* random suffix, so the unused ids are interchangeable and the one with the
\* least unused suffix stands for all of them.
UnusedId ==
    Str(<<"conv", CHOOSE n \in 1..(MaxConversations + 1) :
                      /\ Str(<<"conv", n>>) \notin DOMAIN conversations
                      /\ \A m \in 1..(n - 1) : Str(<<"conv", m>>) \in DOMAIN conversations>>)

\* conv_${Date.now()}_${Math.random().toString(36).substr(2, 9)}: the ids
\* the call may return.  Nothing keeps the clock and Math.random() from
\* repeating an id that is a key already.
generateConversationId == DOMAIN conversations \cup { UnusedId }

\* body.conversationId of a request: a key of the Map or an id that is no
\* key (an absent conversationId is looked up like any other value that is
\* no key).
RequestIds == DOMAIN conversations \cup { UnusedId }

\* NotFound without { status: 404 }: NextResponse.json answers 200
NotFoundWithoutStatus(action, conversationId) ==
    [action |-> action, conversationId |-> conversationId, status |-> 200,
     step |-> "none", body |-> [error |-> "Conversation not found"]]

NotFound(action, conversationId) ==
    [action |-> action, conversationId |-> conversationId, status |-> 404,
     step |-> "none", body |-> [error |-> "Conversation not found"]]

\* The store before any request.
ConversationIdle ==
    /\ conversations = << >>
    /\ heap = << >>
    /\ response = [action |-> "none", conversationId |-> Undefined, status |-> 0,
                   step |-> "none", body |-> [error |-> "none"]]

\* The requirements endpoint before any request: it keeps no state.
ExtractorIdle ==
    /\ processRequest = Null
    /\ requirementsAnalysis = Null
    /\ conversationResponse = Null
    /\ nextState = "none"

\* The generator before any call: it keeps no state.
GeneratorIdle ==
    /\ generatorArguments = Null
    /\ generatorResult = Null

\* The page as Home mounts it: the initial values of its useState calls, no
\* handler suspended.
PageIdle ==
    /\ idea = ""
    /\ platform = [web |-> FALSE, android |-> FALSE, ios |-> FALSE]
    /\ buildSystem = "eas"
    /\ isGenerating = FALSE
    /\ generatedApp = Null
    /\ buildStatuses = << >>
    /\ generation = Null
    /\ builds = << >>
    /\ toast = "none"

\* No send_message is suspended; the text tab after the first run of the
\* effect, with one SpeechRecognition object, not started, whose handlers
\* were made while isListening was false; the dialog without a message.
RestIdle ==
    /\ calls = << >>
    /\ inputMode = "text"
    /\ voiceTranscript = ""
    /\ voiceRequirements = Null
    /\ isListening = FALSE
    /\ isRecording = FALSE
    /\ recognitions = [r \in {1} |-> [state |-> "idle", isListening |-> FALSE]]
    /\ recognitionRef = 1
    /\ effect = FALSE
    /\ conversationMessages = << >>
    /\ timers = << >>

Init ==
    /\ ConversationIdle
    /\ ExtractorIdle
    /\ GeneratorIdle
    /\ PageIdle
    /\ RestIdle

greetingMessage == ConversationMessage("assistant", Str(GreetingContent))

\* initialState without the push of the greeting
initialStateWithoutGreeting(conversationId) ==
    [conversationId |-> conversationId,
     messages |-> << >>,
     currentStep |-> "greeting",
     extractedRequirements |-> Null,
     context |-> [userPreferences |-> << >>,
                  technicalConstraints |-> << >>,
                  previousApps |-> << >>]]

\* initialState of handleStartConversation, the greeting pushed
initialState(conversationId) ==
    [conversationId |-> conversationId,
     messages |-> <<greetingMessage>>,
     currentStep |-> "greeting",
     extractedRequirements |-> Null,
     context |-> [userPreferences |-> << >>,
                  technicalConstraints |-> << >>,
                  previousApps |-> << >>]]

handleStartConversation ==
    /\ UNCHANGED <<extractorVars, generatorVars, pageVars, restVars>>
    /\ \E conversationId \in generateConversationId :
        /\ Allocated(heap) < MaxConversations
        /\ MessagesHeld(heap) < MaxMessages
        /\ LET address == Allocated(heap) + 1
           IN  /\ conversations' = set(conversationId, address)
               /\ heap' = Reachable(
                              [a \in DOMAIN heap \cup {address} |->
                                  IF a = address
                                  THEN initialState(conversationId)
                                  ELSE heap[a]],
                              conversations')
               /\ response' = [action |-> "start",
                               conversationId |-> Undefined,
                               status |-> 200, step |-> "none",
                               body |-> [conversationId |-> conversationId,
                                         message |-> greetingMessage,
                                         currentState |-> address]]

\* sendMessagePushed with unshift in place of push
sendMessageUnshifted(conversation, message) ==
    [conversation EXCEPT
        !.messages = <<ConversationMessage("user", message)>> \o @]

\* The part of handleSendMessage before the await: the user message is
\* pushed and generateAIResponse is called on the object.
sendMessagePushed(conversation, message) ==
    [conversation EXCEPT
        !.messages = Append(@, ConversationMessage("user", message))]

\* sendMessageResumed without the assignment of the step
sendMessageResumedKeepingStep(conversation, aiResponse) ==
    [conversation EXCEPT
        !.messages =
            Append(@, ConversationMessage("assistant", Str(aiResponse.content))),
        !.extractedRequirements =
            IF "extractedRequirements" \in DOMAIN aiResponse
            THEN aiResponse.extractedRequirements
            ELSE @]

\* sendMessageResumed assigning aiResponse.extractedRequirements without
\* the test of its presence
sendMessageResumedUntested(conversation, aiResponse) ==
    [conversation EXCEPT
        !.messages =
            Append(@, ConversationMessage("assistant", Str(aiResponse.content))),
        !.currentStep = aiResponse.nextStep,
        !.extractedRequirements =
            IF "extractedRequirements" \in DOMAIN aiResponse
            THEN aiResponse.extractedRequirements
            ELSE Null]

\* The part of handleSendMessage after the await.
sendMessageResumed(conversation, aiResponse) ==
    [conversation EXCEPT
        !.messages =
            Append(@, ConversationMessage("assistant", Str(aiResponse.content))),
        !.currentStep = aiResponse.nextStep,
        !.extractedRequirements =
            IF "extractedRequirements" \in DOMAIN aiResponse
            THEN aiResponse.extractedRequirements
            ELSE @]

\* The JSON body of a successful send_message; requiresAction is undefined,
\* and so absent from the body, unless the response sets it.
sendMessageBody(message, aiResponse, conversation) ==
    LET body == [userMessage |-> ConversationMessage("user", message),
                 assistantMessage |->
                     ConversationMessage("assistant", Str(aiResponse.content)),
                 currentState |-> conversation]
    IN  IF "requiresAction" \in DOMAIN aiResponse
        THEN [f \in DOMAIN body \cup {"requiresAction"} |->
                 IF f = "requiresAction" THEN aiResponse.requiresAction ELSE body[f]]
        ELSE body

handleSendMessage ==
    /\ UNCHANGED <<extractorVars, generatorVars, pageVars, restVars>>
    /\ \E conversationId \in RequestIds, message \in Messages :
        LET conversation == get(conversationId)
        IN  IF conversation = 0
            THEN /\ response' = NotFound("send_message", conversationId)
                 /\ UNCHANGED <<conversations, heap>>
            ELSE
            LET pushed == sendMessagePushed(heap[conversation], message)
                aiResponse == generateAIResponse(pushed, message)
            IN  IF aiResponse = Rejected
                THEN /\ MessagesHeld(heap) + 1 <= MaxMessages
                     /\ heap' = [heap EXCEPT ![conversation] = pushed]
                     /\ response' =
                            [action |-> "send_message",
                             conversationId |-> conversationId,
                             status |-> 500,
                             step |-> heap[conversation].currentStep,
                             body |-> [error |-> "Internal Server Error"]]
                     /\ UNCHANGED conversations
                ELSE /\ MessagesHeld(heap) + 2 <= MaxMessages
                     /\ heap' = [heap EXCEPT ![conversation] =
                                    sendMessageResumed(pushed, aiResponse)]
                     /\ conversations' = set(conversationId, conversation)
                     /\ response' =
                            [action |-> "send_message",
                             conversationId |-> conversationId,
                             status |-> 200,
                             step |-> heap[conversation].currentStep,
                             body |-> sendMessageBody(message, aiResponse, conversation)]

handleGetConversation ==
    /\ UNCHANGED <<extractorVars, generatorVars, pageVars, restVars>>
    /\ \E conversationId \in RequestIds :
        /\ LET conversation == get(conversationId)
           IN  IF conversation = 0
               THEN response' = NotFound("get_conversation", conversationId)
               ELSE response' = [action |-> "get_conversation",
                                 conversationId |-> conversationId,
                                 status |-> 200,
                                 step |-> heap[conversation].currentStep,
                                 body |-> [conversation |-> conversation]]
        /\ UNCHANGED <<conversations, heap>>

\* The object after handleEndConversation.
closingMessage == ConversationMessage("assistant", Str(ClosingContent))

endConversationClosed(conversation) ==
    [conversation EXCEPT
        !.messages = Append(@, closingMessage),
        !.currentStep = "completion"]

handleEndConversation ==
    /\ UNCHANGED <<extractorVars, generatorVars, pageVars, restVars>>
    /\ \E conversationId \in RequestIds :
        LET conversation == get(conversationId)
        IN  IF conversation = 0
            THEN /\ response' = NotFound("end_conversation", conversationId)
                 /\ UNCHANGED <<conversations, heap>>
            ELSE
            LET closed == endConversationClosed(heap[conversation])
            IN  /\ MessagesHeld(heap) + 1 <= MaxMessages
                /\ heap' = [heap EXCEPT ![conversation] = closed]
                /\ conversations' = set(conversationId, conversation)
                /\ response' =
                       [action |-> "end_conversation",
                        conversationId |-> conversationId,
                        status |-> 200,
                        step |-> heap[conversation].currentStep,
                        body |->
                            [message |-> closingMessage,
                             finalRequirements |-> closed.extractedRequirements,
                             conversationSummary |->
                                 generateConversationSummary(closed)]]

\* POST: one request is handled at a time, dispatched on body.action to one
\* of the four handlers.  A body with another action is answered 400 and
\* touches nothing; it is not a step of the model.
Next ==
    \/ handleStartConversation
    \/ handleSendMessage
    \/ handleGetConversation
    \/ handleEndConversation

Spec == Init /\ [][Next]_vars

----------------------------------------------------------------------------
(* Properties of the conversation API. *)

LookupActions == {"send_message", "get_conversation", "end_conversation"}

\* The request just handled was a send_message that found its conversation
\* in step `step` and returned normally.
Sent(step) ==
    /\ response.action = "send_message"
    /\ response.status = 200
    /\ response.step = step

\* The object of the conversation the request just handled was about.
Target == heap[conversations[response.conversationId]]

\* The lower-cased text of the message just sent holds one of the keywords.
SentHolds(keywords) ==
    \E k \in keywords :
        includes(toLowerCase(response.body.userMessage.content.value), k)

IsPrefix(s, t) == Len(s) <= Len(t) /\ SubSeq(t, 1, Len(s)) = s

CountRole(messages, role) ==
    Cardinality({ i \in 1..Len(messages) : messages[i].role = role })

\* C1: a send_message, get_conversation or end_conversation whose
\* conversationId is no key of the store is answered 404 and changes neither
\* the keys of the store nor any conversation.
C1_UnknownIdIsNotFound ==
    [][ (/\ response'.action \in LookupActions
         /\ response'.conversationId \notin DOMAIN conversations)
        => (/\ response'.status = 404
            /\ conversations' = conversations
            /\ heap' = heap) ]_vars

\* C1 witness: a send_message was answered 404 while the store holds a
\* conversation.
C1_Witness ==
    /\ response.action = "send_message"
    /\ response.status = 404
    /\ DOMAIN conversations # {}

\* C2: the history of a conversation that was not ended is the greeting
\* followed by one user message and one assistant message per send_message
\* call: its length is odd and the roles alternate, assistant first and last.
C2_HistoryAlternates ==
    \A a \in DOMAIN heap :
        LET messages == heap[a].messages
        IN  (\A i \in 1..Len(messages) : messages[i] # closingMessage)
            => /\ Len(messages) % 2 = 1
               /\ \A i \in 1..Len(messages) :
                      messages[i].role = IF i % 2 = 1 THEN "assistant" ELSE "user"

\* C3: once the step of a conversation is completion, no request moves it
\* to an earlier step.
C3_CompletionIsTerminal ==
    [][ \A a \in DOMAIN heap \cap DOMAIN heap' :
            heap[a].currentStep = "completion"
            => heap'[a].currentStep = "completion" ]_vars

\* C4: start stores, under the conversationId it returns, a newly allocated
\* state in step greeting with null requirements whose history is exactly
\* the assistant greeting.
C4_StartCreatesGreetingState ==
    [][ response'.action = "start"
        => LET id == response'.body.conversationId
               a == response'.body.currentState
           IN  /\ response'.status = 200
               /\ a \notin DOMAIN heap
               /\ id \in DOMAIN conversations'
               /\ conversations'[id] = a
               /\ heap'[a].conversationId = id
               /\ heap'[a].currentStep = "greeting"
               /\ heap'[a].extractedRequirements = Null
               /\ heap'[a].messages =
                      << [role |-> "assistant", content |-> Str(GreetingContent)] >>
               /\ response'.body.message = heap'[a].messages[1] ]_vars

\* C4 witness: a second conversation was started beside a live one.
C4_Witness ==
    /\ response.action = "start"
    /\ Cardinality(DOMAIN conversations) = 2

\* C5: from step greeting a send_message leads to requirement_gathering
\* exactly when the lower-cased message holds an app-intent keyword, and
\* leaves the step at greeting otherwise.
C5_GreetingTransition ==
    /\ Sent("greeting")
       => Target.currentStep =
              IF SentHolds({"app", "application", "build", "create", "develop", "make"})
              THEN "requirement_gathering"
              ELSE "greeting"
    /\ (response.action = "send_message" /\ response.status = 500
            /\ response.step = "greeting")
       => Target.currentStep = "greeting"

\* C5 witness: a message moved a conversation from greeting to
\* requirement_gathering.
C5_Witness ==
    /\ Sent("greeting")
    /\ Target.currentStep = "requirement_gathering"

PlatformWords == {"web", "website", "android", "mobile", "ios", "iphone"}

FeatureWords == {"feature", "function", "do", "should", "need", "want"}

\* C6: from step requirement_gathering a message with a platform keyword
\* keeps the step, also when it holds a feature-intent keyword; a message
\* with a feature-intent keyword and no platform keyword leads to
\* clarification; a message with neither keeps the step.
C6_RequirementGatheringTransition ==
    Sent("requirement_gathering")
    => Target.currentStep =
           IF SentHolds(PlatformWords) THEN "requirement_gathering"
           ELSE IF SentHolds(FeatureWords) THEN "clarification"
           ELSE "requirement_gathering"

\* C6 witness: a message holding a platform keyword and a feature-intent
\* keyword was sent in requirement_gathering.
C6_Witness ==
    /\ Sent("requirement_gathering")
    /\ SentHolds(PlatformWords)
    /\ SentHolds(FeatureWords)

\* C7: from step clarification a send_message leads to completion and
\* returns requiresAction = true exactly when the lower-cased message holds
\* a confirmation keyword; otherwise the step stays clarification.  No other
\* send_message returns requiresAction.
C7_ClarificationTransition ==
    response.action = "send_message"
    => IF Sent("clarification")
            /\ SentHolds({"yes", "correct", "right", "exactly", "perfect", "good"})
       THEN /\ Target.currentStep = "completion"
            /\ "requiresAction" \in DOMAIN response.body
            /\ response.body.requiresAction = TRUE
       ELSE /\ "requiresAction" \notin DOMAIN response.body
            /\ response.step = "clarification" /\ response.status # 404
                   => Target.currentStep = "clarification"

\* C7 witness: a confirmation completed a conversation.
C7_Witness ==
    /\ Sent("clarification")
    /\ "requiresAction" \in DOMAIN response.body

\* C8: end_conversation on an existing conversation appends exactly the
\* closing message, sets the step to completion, returns the stored
\* requirements, and a summary whose two counts are the numbers of user and
\* of assistant messages of the history with the closing message.
C8_EndConversation ==
    [][ (response'.action = "end_conversation"
            /\ response'.conversationId \in DOMAIN conversations)
        => LET a == conversations[response'.conversationId]
               summary == response'.body.conversationSummary
           IN  /\ response'.status = 200
               /\ conversations' = conversations
               /\ heap'[a].messages =
                      Append(heap[a].messages,
                             [role |-> "assistant", content |-> Str(ClosingContent)])
               /\ response'.body.message = heap'[a].messages[Len(heap'[a].messages)]
               /\ heap'[a].currentStep = "completion"
               /\ heap'[a].extractedRequirements = heap[a].extractedRequirements
               /\ response'.body.finalRequirements = heap[a].extractedRequirements
               /\ summary.userMessages = CountRole(heap'[a].messages, "user")
               /\ summary.aiResponses = CountRole(heap'[a].messages, "assistant")
               /\ summary.userMessages + summary.aiResponses
                      = Len(heap'[a].messages) ]_vars

\* C8 witness: a conversation with requirements and a user message was
\* ended before it reached completion.
C8_Witness ==
    /\ response.action = "end_conversation"
    /\ response.status = 200
    /\ response.step = "requirement_gathering"
    /\ response.body.finalRequirements # Null
    /\ response.body.conversationSummary.userMessages >= 1

\* C9: the history of a conversation only grows at its end: its value
\* before a request is a prefix of its value after it.
C9_HistoryAppendOnly ==
    [][ \A a \in DOMAIN heap \cap DOMAIN heap' :
            IsPrefix(heap[a].messages, heap'[a].messages) ]_vars

\* C9 witness: a conversation holds the messages of a send_message and the
\* closing message of an end_conversation.
C9_Witness ==
    \E a \in DOMAIN heap :
        /\ Len(heap[a].messages) >= 4
        /\ heap[a].messages[Len(heap[a].messages)] = closingMessage

\* C10: no request removes a key from the store, and get_conversation
\* changes nothing of the store.
C10_NoRemoval ==
    [][ /\ DOMAIN conversations \subseteq DOMAIN conversations'
        /\ response'.action = "get_conversation"
               => conversations' = conversations /\ heap' = heap ]_vars

\* C10 witness: an ended conversation is read back from the store.
C10_Witness ==
    /\ response.action = "get_conversation"
    /\ response.status = 200
    /\ Target.currentStep = "completion"

\* C11: a get_conversation or end_conversation that starts after a
\* send_message on the same conversation has returned observes the whole
\* effect of that call: the history the send_message left ends with its user
\* message followed by its assistant message, the history read is that
\* history (followed by the closing message after end_conversation), and the
\* step found is the step the send_message left.
C11_ReturnedSendIsVisible ==
    [][ ( /\ response.action = "send_message"
          /\ response.status # 404
          /\ response'.action \in {"get_conversation", "end_conversation"}
          /\ response'.conversationId = response.conversationId )
        => LET sent == Target.messages
               observed ==
                   heap'[conversations'[response'.conversationId]].messages
           IN  /\ IsPrefix(sent, observed)
               /\ Len(sent) >= 3
               /\ sent[Len(sent) - 1].role = "user"
               /\ sent[Len(sent)].role = "assistant"
               /\ response.status = 200 =>
                      /\ sent[Len(sent) - 1] = response.body.userMessage
                      /\ sent[Len(sent)] = response.body.assistantMessage
               /\ response'.step = Target.currentStep ]_vars

\* The send_message just handled (in the step's second state) returned
\* normally and was about the object at address a.
SentTo(a) ==
    /\ response.action = "send_message"
    /\ response.status = 200
    /\ response.conversationId \in DOMAIN conversations
    /\ conversations[response.conversationId] = a

\* C21: extractedRequirements of a conversation changes only by a
\* send_message, and by overwriting fields: in requirement_gathering a
\* message with a platform keyword replaces platforms and keeps every other
\* field, a message with a feature-intent keyword and no platform keyword
\* replaces features and keeps every other field; in greeting an app idea
\* stores platforms and features; every other request leaves the value as
\* it is, so that it never goes back to null once it is an object.
C21_ShallowOverwrite ==
    [][ \A a \in DOMAIN heap \cap DOMAIN heap' :
            LET old == heap[a].extractedRequirements
                new == heap'[a].extractedRequirements
                kept(fields) ==
                    /\ new # Null
                    /\ old # Null =>
                           /\ DOMAIN old \subseteq DOMAIN new
                           /\ \A f \in DOMAIN old \ fields : new[f] = old[f]
            IN  /\ old # Null => new # Null
                /\ IF SentTo(a)' /\ response'.step = "requirement_gathering"
                   THEN IF SentHolds(PlatformWords)' THEN kept({"platforms"})
                        ELSE IF SentHolds(FeatureWords)' THEN kept({"features"})
                        ELSE new = old
                   ELSE IF SentTo(a)' /\ response'.step = "greeting"
                   THEN new # old => DOMAIN new = {"platforms", "features"}
                   ELSE new = old ]_vars

\* C21 witness: a feature message sent in requirement_gathering led to
\* clarification and the platforms stored by an earlier platform message
\* are still there.
C21_Witness ==
    /\ Sent("requirement_gathering")
    /\ Target.currentStep = "clarification"
    /\ Target.extractedRequirements # Null
    /\ Target.extractedRequirements.platforms # << >>

\* The stages of a conversation in their order.
StepOrder == <<"greeting", "requirement_gathering", "clarification", "completion">>

StepRank(step) == CHOOSE i \in 1..Len(StepOrder) : StepOrder[i] = step

\* C25: a send_message that finds its conversation in step greeting,
\* requirement_gathering or clarification leaves the step as it is or moves
\* it to the next stage of the order greeting, requirement_gathering,
\* clarification, completion: no stage is skipped, the step does not move
\* back, and confirmation is never set.
C25_StepAdvancesByOne ==
    ( /\ response.action = "send_message"
      /\ response.status # 404
      /\ response.step \in {"greeting", "requirement_gathering", "clarification"} )
    => /\ Target.currentStep \in { StepOrder[i] : i \in 1..Len(StepOrder) }
       /\ StepRank(Target.currentStep) - StepRank(response.step) \in {0, 1}

\* C25 witness: a send_message moved a conversation from clarification to
\* completion.
C25_Witness ==
    /\ Sent("clarification")
    /\ Target.currentStep = "completion"

----------------------------------------------------------------------------
(* Overlapping send_message calls.                                         *)
(*                                                                         *)
(* handleSendMessage has one await.  generateAIResponse is an async        *)
(* function without an await of its own: its body runs when it is called,  *)
(* so the response of a call is computed from the conversation as it is    *)
(* when the user message is pushed, and the call is suspended with that    *)
(* response until its continuation runs.  Requests are handled on one      *)
(* thread: the part before the await is one step, the part after it        *)
(* another, and steps of other requests may come between them.             *)

\* At most MaxCalls calls of handleSendMessage are suspended at a time.
MaxCalls == 2

\* The messages of the overlapping calls: one with an app idea, one
\* without, and a body without message.
RaceMessages ==
    { Str("I want to build a todo app"), Str("Android"), Undefined }

\* handleSendMessage up to its await.  A call whose response is a rejected
\* promise has nothing left to do but to fail with 500.
handleSendMessageCalled ==
    /\ Len(calls) < MaxCalls
    /\ \E conversationId \in RequestIds, message \in RaceMessages :
        LET conversation == get(conversationId)
        IN  IF conversation = 0
            THEN /\ response' = NotFound("send_message", conversationId)
                 /\ UNCHANGED <<conversations, heap, calls>>
            ELSE
            LET pushed == sendMessagePushed(heap[conversation], message)
                aiResponse == generateAIResponse(pushed, message)
            IN  /\ heap' = [heap EXCEPT ![conversation] = pushed]
                /\ UNCHANGED conversations
                /\ IF aiResponse = Rejected
                   THEN /\ MessagesHeld(heap) + Len(calls) + 1 <= MaxMessages
                        /\ response' =
                               [action |-> "send_message",
                                conversationId |-> conversationId,
                                status |-> 500,
                                step |-> heap[conversation].currentStep,
                                body |-> [error |-> "Internal Server Error"]]
                        /\ UNCHANGED calls
                   ELSE /\ MessagesHeld(heap) + Len(calls) + 2 <= MaxMessages
                        /\ calls' = Append(calls,
                               [conversationId |-> conversationId,
                                conversation |-> conversation,
                                message |-> message,
                                step |-> heap[conversation].currentStep,
                                aiResponse |-> aiResponse])
                        /\ UNCHANGED response
    /\ UNCHANGED <<voiceVars, chatVars>>
    /\ UNCHANGED <<extractorVars, generatorVars, pageVars>>

\* handleSendMessage after its await, for any one of the suspended calls.
handleSendMessageResumed ==
    /\ \E i \in 1..Len(calls) :
        LET call == calls[i]
        IN  /\ calls' = SubSeq(calls, 1, i - 1) \o SubSeq(calls, i + 1, Len(calls))
            /\ conversations' = set(call.conversationId, call.conversation)
            /\ heap' = ReachableFrom(
                           [heap EXCEPT ![call.conversation] =
                               sendMessageResumed(@, call.aiResponse)],
                           conversations', calls')
            /\ response' =
                   [action |-> "send_message",
                    conversationId |-> call.conversationId,
                    status |-> 200,
                    step |-> call.step,
                    body |-> sendMessageBody(call.message, call.aiResponse,
                                             call.conversation)]
    /\ UNCHANGED <<voiceVars, chatVars>>
    /\ UNCHANGED <<extractorVars, generatorVars, pageVars>>

\* The requests that take part in an overlap.  get_conversation and
\* end_conversation have no await; they are the steps of Spec.
RaceNext ==
    \/ handleStartConversation
    \/ handleSendMessageCalled
    \/ handleSendMessageResumed

RaceSpec == Init /\ [][RaceNext]_vars

\* C22: send_message calls on one conversation that overlap at the await
\* race, and the last write wins.  A call pushes its user message and
\* computes its response from the step it finds, without changing the step;
\* when it resumes, whatever happened in between, it appends its assistant
\* message, sets the step to the next step it had computed, and puts its
\* object under its id.
C22_LastWriteWins ==
    [][ /\ Len(calls') = Len(calls) + 1 =>
               LET call == calls'[Len(calls')]
                   a == call.conversation
               IN  /\ heap'[a].messages =
                          Append(heap[a].messages,
                                 ConversationMessage("user", call.message))
                   /\ heap'[a].currentStep = heap[a].currentStep
                   /\ call.step = heap[a].currentStep
                   /\ call.aiResponse =
                          generateAIResponse(
                              [heap[a] EXCEPT !.currentStep = call.step],
                              call.message)
        /\ Len(calls') = Len(calls) - 1 =>
               \E i \in 1..Len(calls) :
                   LET call == calls[i]
                       a == call.conversation
                   IN  /\ calls' = SubSeq(calls, 1, i - 1)
                                       \o SubSeq(calls, i + 1, Len(calls))
                       /\ heap'[a].messages =
                              Append(heap[a].messages,
                                     ConversationMessage("assistant",
                                         Str(call.aiResponse.content)))
                       /\ heap'[a].currentStep = call.aiResponse.nextStep
                       /\ conversations'[call.conversationId] = a ]_vars

\* C22 witness: two calls found a conversation in greeting; both user
\* messages were pushed before either assistant message; the call that
\* resumed first stored the requirements and the step
\* requirement_gathering, and the call that resumed last, whose message
\* held no app idea, has set the step back to greeting.
C22_Witness ==
    /\ Sent("greeting")
    /\ calls = << >>
    /\ Len(Target.messages) = 5
    /\ Target.messages[2].role = "user"
    /\ Target.messages[3].role = "user"
    /\ Target.messages[4].content = Str(AskPlatformsContent)
    /\ Target.messages[5].content = Str(AskAppKindContent)
    /\ Target.currentStep = "greeting"
    /\ Target.extractedRequirements # Null

----------------------------------------------------------------------------
(* The stateless requirements endpoint.                                    *)
(*                                                                         *)
(* The confidence of an analysis is Math.random() * 0.3 + 0.7, a number in *)
(* [0.7, 1.0); the model counts it in hundredths, 70..99, and the          *)
(* threshold 0.8 of the response selector is 80.  The history and the      *)
(* previousRequirements of a request are read by nothing.                  *)

\* The transcripts a request may carry.
TranscriptTexts ==
    { "",
      "I want a todo app",
      "Build a recipe website",
      "A mobile fitness tracker",
      "An iPhone and Android budget planner",
      "todo list with budget reports for iOS",
      "habit budget todo",
      "Social habit tracker on the web and mobile",
      "meditation and language lessons",
      "Something for my shop",
      "WEB ANDROID IOS",
      "studios booking",
      "simple professional todo website with login and payment" }

Transcripts == { Str(t) : t \in TranscriptTexts } \cup { Undefined }

\* The currentState of a request: absent, or one of three strings.
CurrentStates ==
    { Undefined, Str("gathering_requirements"), Str("confirming"),
      Str("complete") }

Confidences == 70..99

\* [...new Set(list)]: the entries of list in the order of their first
\* occurrence.
RECURSIVE Distinct(_)
Distinct(list) ==
    IF Len(list) = 0 THEN << >>
    ELSE LET front == Distinct(SubSeq(list, 1, Len(list) - 1))
             last == list[Len(list)]
         IN  pushIf(front, \A i \in 1..Len(front) : front[i] # last, last)

\* list.slice(0, end)
slice(list, end) ==
    SubSeq(list, 1, IF Len(list) < end THEN Len(list) ELSE end)

\* analyzeTranscriptForRequirements: the platforms whose keywords the
\* transcript holds
detectedPlatforms(lowerTranscript) ==
    LET web == pushIf(<< >>,
                      \/ includes(lowerTranscript, "web")
                      \/ includes(lowerTranscript, "website"),
                      "web")
        android == pushIf(web,
                          \/ includes(lowerTranscript, "android")
                          \/ includes(lowerTranscript, "mobile"),
                          "android")
    IN  pushIf(android,
               \/ includes(lowerTranscript, "ios")
               \/ includes(lowerTranscript, "iphone"),
               "ios")

\* The platforms without the default to web
extractPlatformsWithoutDefault(lowerTranscript) ==
    detectedPlatforms(lowerTranscript)

\* analyzeTranscriptForRequirements: the platforms
extractPlatforms(lowerTranscript) ==
    LET found == detectedPlatforms(lowerTranscript)
    IN  pushIf(found, Len(found) = 0, "web")

\* The featureKeywords object of analyzeTranscriptForRequirements, in the
\* order of its keys.
domainFeatureKeywords ==
    << [keyword |-> "todo",
        features |-> <<"task management", "reminders", "categories",
                       "due dates">>],
       [keyword |-> "recipe",
        features |-> <<"ingredients", "cooking instructions",
                       "shopping lists", "meal planning">>],
       [keyword |-> "fitness",
        features |-> <<"workouts", "exercise tracking", "progress charts",
                       "health data">>],
       [keyword |-> "budget",
        features |-> <<"expense tracking", "categories",
                       "spending analysis", "reports">>],
       [keyword |-> "social",
        features |-> <<"user profiles", "posts", "comments", "likes",
                       "sharing">>],
       [keyword |-> "habit",
        features |-> <<"daily tracking", "streaks", "reminders",
                       "progress visualization">>],
       [keyword |-> "meditation",
        features |-> <<"guided sessions", "timer", "progress tracking",
                       "calming sounds">>],
       [keyword |-> "language",
        features |-> <<"flashcards", "lessons", "progress tracking",
                       "quizzes">>] >>

genericFeatures == <<"user interface", "data management", "responsive design">>

\* The loop over Object.entries(featureKeywords): the feature lists of the
\* first n entries whose keyword the transcript holds, one after another.
RECURSIVE matchedFeatures(_, _)
matchedFeatures(lowerTranscript, n) ==
    IF n = 0 THEN << >>
    ELSE LET entry == domainFeatureKeywords[n]
             before == matchedFeatures(lowerTranscript, n - 1)
         IN  IF includes(lowerTranscript, entry.keyword)
             THEN before \o entry.features
             ELSE before

\* analyzeTranscriptForRequirements: the features found, or the generic
\* ones, without duplicates
distinctFeatures(lowerTranscript) ==
    LET matched == matchedFeatures(lowerTranscript, Len(domainFeatureKeywords))
    IN  Distinct(IF Len(matched) = 0 THEN genericFeatures ELSE matched)

\* The core features without the limit of five
extractCoreFeaturesUnlimited(lowerTranscript) ==
    distinctFeatures(lowerTranscript)

\* analyzeTranscriptForRequirements: the core features
extractCoreFeatures(lowerTranscript) ==
    slice(distinctFeatures(lowerTranscript), 5)

\* analyzeTranscriptForRequirements, with the value of Math.random() * 0.3 +
\* 0.7 as its second argument
analyzeTranscriptForRequirements(transcriptText, confidence) ==
    LET lowerTranscript == toLowerCase(transcriptText)
        has(keyword) == includes(lowerTranscript, keyword)
        uiStyle ==
            IF has("corporate") \/ has("professional") THEN "corporate"
            ELSE IF has("minimalist") \/ has("simple") THEN "minimalist"
            ELSE "modern"
        complexity ==
            IF has("complex") \/ has("advanced") THEN "advanced"
            ELSE IF has("simple") \/ has("basic") THEN "basic"
            ELSE "intermediate"
        externalApis ==
            pushIf(pushIf(pushIf(pushIf(<< >>,
                has("payment"), "payment processing"),
                has("map") \/ has("location"), "maps/geolocation"),
                has("notification"), "push notifications"),
                has("social") \/ has("share"), "social media")
    IN  [requirements |->
            [platforms |-> extractPlatforms(lowerTranscript),
             coreFeatures |-> extractCoreFeatures(lowerTranscript),
             uiStyle |-> uiStyle,
             complexity |-> complexity,
             technicalRequirements |->
                 [database |-> \/ has("data") \/ has("storage")
                               \/ has("save") \/ has("sync"),
                  authentication |-> \/ has("login") \/ has("user")
                                     \/ has("account") \/ has("profile"),
                  externalApis |-> externalApis]],
         confidence |-> confidence]

\* list.join(', ')
RECURSIVE join(_)
join(list) ==
    IF Len(list) = 0 THEN ""
    ELSE IF Len(list) = 1 THEN list[1]
    ELSE list[1] \o ", " \o join(SubSeq(list, 2, Len(list)))

lowConfidenceResponse ==
    [type |-> "clarification",
     message |-> "I want to make sure I understand your requirements correctly. Could you provide more details about what you'd like your app to do?",
     questions |-> <<"What specific features are most important to you?",
                     "Which platforms do you need the app to work on?",
                     "Do you need user accounts or data storage?">>]

unclearPlatformsResponse ==
    [type |-> "clarification",
     message |-> "I'd like to know which platforms you need your app to support.",
     questions |-> <<"Do you need a web app, mobile app, or both?",
                     "Should it work on iOS, Android, or both?">>]

\* confirmationResponse with the type completion
confirmationAsCompletion(requirements) ==
    [type |-> "completion",
     message |-> "Great! I understand you want to create a "
                     \o requirements.complexity \o " "
                     \o requirements.uiStyle \o "-style app for "
                     \o join(requirements.platforms)
                     \o " with features like "
                     \o join(slice(requirements.coreFeatures, 3))
                     \o ". Does this sound correct?",
     questions |-> <<"Are these the main features you want?",
                     "Would you like to add any other features?",
                     "Should I proceed with generating the app?">>]

confirmationResponse(requirements) ==
    [type |-> "confirmation",
     message |-> "Great! I understand you want to create a "
                     \o requirements.complexity \o " "
                     \o requirements.uiStyle \o "-style app for "
                     \o join(requirements.platforms)
                     \o " with features like "
                     \o join(slice(requirements.coreFeatures, 3))
                     \o ". Does this sound correct?",
     questions |-> <<"Are these the main features you want?",
                     "Would you like to add any other features?",
                     "Should I proceed with generating the app?">>]

incompleteResponse ==
    [type |-> "clarification",
     message |-> "I'm getting a good understanding of what you want. To make sure I create the perfect app for you, could you tell me more about:",
     questions |-> <<"What's the primary goal of your app?",
                     "Who are the main users?",
                     "Are there any specific features you definitely want to include?">>]

\* The selector with the test of the features before the test of the
\* confidence
generateConversationResponseFeaturesFirst(analysis, currentState) ==
    IF Len(analysis.requirements.coreFeatures) >= 3
    THEN confirmationResponse(analysis.requirements)
    ELSE IF analysis.confidence < 80 THEN lowConfidenceResponse
    ELSE IF Len(analysis.requirements.platforms) = 0
    THEN unclearPlatformsResponse
    ELSE incompleteResponse

generateConversationResponse(analysis, currentState) ==
    IF analysis.confidence < 80 THEN lowConfidenceResponse
    ELSE IF Len(analysis.requirements.platforms) = 0
    THEN unclearPlatformsResponse
    ELSE IF /\ Len(analysis.requirements.coreFeatures) >= 3
            /\ analysis.confidence >= 80
    THEN confirmationResponse(analysis.requirements)
    ELSE incompleteResponse

\* The analyses of the transcripts, computed once and looked up afterwards;
\* the confidence is put in by the request.
Analysed ==
    [t \in TranscriptTexts |->
        analyzeTranscriptForRequirements(t, 0).requirements]

\* The analyses generateConversationResponse is applied to on its own: its
\* parameter is typed any, so they range wider than the analyses of
\* analyzeTranscriptForRequirements.
SelectorAnalyses ==
    { [requirements |->
          [platforms |-> p, coreFeatures |->
               slice(Analysed["habit budget todo"].coreFeatures, n),
           uiStyle |-> "modern", complexity |-> "intermediate",
           technicalRequirements |->
               [database |-> FALSE, authentication |-> FALSE,
                externalApis |-> << >>]],
       confidence |-> c] :
      p \in { << >>, <<"web">>, <<"android", "ios">> },
      n \in {0, 2, 3, 5},
      c \in {70, 79, 80, 99} }

ExtractorInit ==
    /\ processRequest = Null
    /\ requirementsAnalysis \in SelectorAnalyses
    /\ conversationResponse = Null
    /\ nextState = "none"
    /\ ConversationIdle
    /\ GeneratorIdle
    /\ PageIdle
    /\ RestIdle

\* generateConversationResponse applied to an analysis of SelectorAnalyses.
SelectResponse ==
    /\ processRequest = Null
    /\ conversationResponse = Null
    /\ \E currentState \in {"gathering_requirements", "confirming"} :
           conversationResponse' =
               generateConversationResponse(requirementsAnalysis, currentState)
    /\ UNCHANGED <<processRequest, requirementsAnalysis, nextState>>
    /\ UNCHANGED <<conversationVars, generatorVars, pageVars, restVars>>

\* POST of the requirements endpoint.  A body without a transcript makes
\* transcript.toLowerCase() throw; the catch answers 500.  The endpoint keeps
\* nothing between two requests, so a behaviour follows one request.
POST ==
    /\ processRequest = Null
    /\ \E transcript \in Transcripts, state \in CurrentStates,
          confidence \in Confidences :
           LET currentState == IF state = Undefined
                               THEN "gathering_requirements"
                               ELSE state.value
           IN  IF transcript = Undefined
               THEN /\ processRequest' =
                           [transcript |-> transcript,
                            currentState |-> state, status |-> 500]
                    /\ requirementsAnalysis' = Null
                    /\ conversationResponse' = Null
                    /\ nextState' = "none"
               ELSE LET analysis ==
                            [requirements |-> Analysed[transcript.value],
                             confidence |-> confidence]
                        selected ==
                            generateConversationResponse(analysis, currentState)
                    IN  /\ processRequest' =
                               [transcript |-> transcript,
                                currentState |-> state,
                                status |-> 200]
                        /\ requirementsAnalysis' = analysis
                        /\ conversationResponse' = selected
                        /\ nextState' = IF selected.type = "completion"
                                        THEN "complete"
                                        ELSE currentState
    /\ UNCHANGED <<conversationVars, generatorVars, pageVars, restVars>>

ExtractorNext ==
    \/ SelectResponse
    \/ POST

ExtractorSpec == ExtractorInit /\ [][ExtractorNext]_vars

----------------------------------------------------------------------------
(* Properties of the requirements endpoint. *)

\* The endpoint has answered a request with an analysis.
Processed == processRequest # Null /\ processRequest.status = 200

Platforms == {"web", "android", "ios"}

PlatformKeywordsOf ==
    [p \in Platforms |->
        IF p = "web" THEN {"web", "website"}
        ELSE IF p = "android" THEN {"android", "mobile"}
        ELSE {"ios", "iphone"}]

\* For every transcript, the platforms one of whose keywords its lower-cased
\* text holds, and the dictionary entries whose keyword it holds.
PlatformsMentioned ==
    [t \in TranscriptTexts |->
        { p \in Platforms :
            \E k \in PlatformKeywordsOf[p] : OccursIn(LowerCaseOf(t), k) }]

DomainsMentioned ==
    [t \in TranscriptTexts |->
        { n \in 1..Len(domainFeatureKeywords) :
            OccursIn(LowerCaseOf(t), domainFeatureKeywords[n].keyword) }]

Mentioned(p) == p \in PlatformsMentioned[processRequest.transcript.value]

Range(list) == { list[i] : i \in 1..Len(list) }

\* C12: the platforms of an analysis are never empty: they are [web] when
\* the transcript holds none of web, website, android, mobile, ios, iphone,
\* and otherwise exactly the platforms one of whose keywords it holds, each
\* once.
C12_PlatformsNeverEmpty ==
    Processed =>
        LET platforms == requirementsAnalysis.requirements.platforms
        IN  /\ Len(platforms) >= 1
            /\ (\A p \in Platforms : ~Mentioned(p)) => platforms = <<"web">>
            /\ (\E p \in Platforms : Mentioned(p)) =>
                   /\ Range(platforms) = { p \in Platforms : Mentioned(p) }
                   /\ Len(platforms) = Cardinality(Range(platforms))

\* C12 witness: a transcript without any platform keyword was analysed to
\* the platforms [web].
C12_Witness ==
    /\ Processed
    /\ \A p \in Platforms : ~Mentioned(p)
    /\ processRequest.transcript.value # ""
    /\ requirementsAnalysis.requirements.platforms = <<"web">>

\* The places <<n, j>> of the labels in the feature lists of the dictionary
\* entries whose keyword the transcript holds, and their dictionary order.
MatchingPlaces ==
    { <<n, j>> \in (1..Len(domainFeatureKeywords)) \X (1..5) :
        /\ n \in DomainsMentioned[processRequest.transcript.value]
        /\ j <= Len(domainFeatureKeywords[n].features) }

LabelAt(place) == domainFeatureKeywords[place[1]].features[place[2]]

Before(a, b) == a[1] < b[1] \/ (a[1] = b[1] /\ a[2] < b[2])

FirstPlace(label) ==
    CHOOSE a \in MatchingPlaces :
        /\ LabelAt(a) = label
        /\ \A b \in MatchingPlaces : LabelAt(b) = label => ~Before(b, a)

MatchingLabels == { LabelAt(a) : a \in MatchingPlaces }

\* The number of a label among the distinct labels, in dictionary order.
Rank(label) ==
    1 + Cardinality({ other \in MatchingLabels :
                        Before(FirstPlace(other), FirstPlace(label)) })

\* C13: the core features of an analysis are one to five labels without a
\* duplicate: the first five distinct labels of the feature lists of the
\* matching domain keywords, in dictionary order, or the three generic
\* features when no domain keyword matches.
C13_CoreFeatures ==
    Processed =>
        LET coreFeatures == requirementsAnalysis.requirements.coreFeatures
            count == Cardinality(MatchingLabels)
        IN  /\ Len(coreFeatures) \in 1..5
            /\ Len(coreFeatures) = Cardinality(Range(coreFeatures))
            /\ IF MatchingPlaces = {}
               THEN coreFeatures =
                        <<"user interface", "data management",
                          "responsive design">>
               ELSE /\ Len(coreFeatures) = (IF count < 5 THEN count ELSE 5)
                    /\ \A i \in 1..Len(coreFeatures) :
                           /\ coreFeatures[i] \in MatchingLabels
                           /\ Rank(coreFeatures[i]) = i

\* C13 witness: the transcript holds two domain keywords whose lists share a
\* label and have more than five distinct labels, and five were kept.
C13_Witness ==
    /\ Processed
    /\ Cardinality(MatchingLabels) > 5
    /\ Cardinality(MatchingLabels) < Cardinality(MatchingPlaces)
    /\ Len(requirementsAnalysis.requirements.coreFeatures) = 5

\* C14: the response selector answers by the first rule that applies:
\* the clarification of a low confidence when the confidence is below 0.8;
\* the clarification of unclear platforms when the platforms are empty; a
\* confirmation when there are at least three core features and the
\* confidence is at least 0.8; the default clarification otherwise.
C14_SelectorPrecedence ==
    conversationResponse # Null =>
        LET requirements == requirementsAnalysis.requirements
        IN  IF requirementsAnalysis.confidence < 80
            THEN conversationResponse = lowConfidenceResponse
            ELSE IF requirements.platforms = << >>
            THEN conversationResponse = unclearPlatformsResponse
            ELSE IF Len(requirements.coreFeatures) >= 3
            THEN conversationResponse.type = "confirmation"
            ELSE conversationResponse = incompleteResponse

\* C14 witness: an analysis with no platforms, two features and a confidence
\* below 0.8 was answered by the clarification of a low confidence.
C14_Witness ==
    /\ conversationResponse = lowConfidenceResponse
    /\ requirementsAnalysis.requirements.platforms = << >>
    /\ Len(requirementsAnalysis.requirements.coreFeatures) < 3

\* C30: the endpoint answers no request with a response of type
\* completion: nextState is the currentState of the request,
\* gathering_requirements when the request has none, and is complete only
\* when the request said so itself; the platforms of the analysis are never
\* empty, so the response that asks for the platforms is never selected.
C30_NeverCompletion ==
    Processed
    => /\ conversationResponse.type \in {"clarification", "confirmation"}
       /\ nextState = IF processRequest.currentState = Undefined
                      THEN "gathering_requirements"
                      ELSE processRequest.currentState.value
       /\ nextState = "complete" => processRequest.currentState = Str("complete")
       /\ requirementsAnalysis.requirements.platforms # << >>
       /\ conversationResponse # unclearPlatformsResponse

\* C30 witness: a request without currentState whose requirements were
\* complete enough for the confirmation was answered with nextState
\* gathering_requirements.
C30_Witness ==
    /\ Processed
    /\ processRequest.currentState = Undefined
    /\ conversationResponse.type = "confirmation"
    /\ nextState = "gathering_requirements"

----------------------------------------------------------------------------
(* The app generator.                                                      *)
(*                                                                         *)
(* The content of a generated file is a fixed template with the app name   *)
(* put in; the model writes it as the pair of the name of the template and *)
(* the app name.                                                           *)

\* The ideas the generator is applied to.
Ideas ==
    { "",
      "   ",
      "A simple todo app",
      "an app for the web",
      "Recipe manager with shopping lists",
      "TODO list",
      "fitness  tracker",
      "the application that tracks budgets",
      "my to-do planner",
      "todos",
      "2048 game!" }

PlatformFlags == [web : BOOLEAN, android : BOOLEAN, ios : BOOLEAN]

BuildSystems == {"eas", "capacitor"}

UpperCaseChar(c) ==
    IF \E i \in 1..Len(LowerCaseLetters) : SubSeq(LowerCaseLetters, i, i) = c
    THEN LET i == CHOOSE j \in 1..Len(LowerCaseLetters) :
                      SubSeq(LowerCaseLetters, j, j) = c
         IN  SubSeq(UpperCaseLetters, i, i)
    ELSE c

\* s.split(' '): the pieces of s between its spaces, empty pieces included
RECURSIVE split(_)
split(s) ==
    IF \A i \in 1..Len(s) : SubSeq(s, i, i) # " " THEN <<s>>
    ELSE LET i == CHOOSE j \in 1..Len(s) :
                      /\ SubSeq(s, j, j) = " "
                      /\ \A k \in 1..(j - 1) : SubSeq(s, k, k) # " "
         IN  <<SubSeq(s, 1, i - 1)>> \o split(SubSeq(s, i + 1, Len(s)))

stopWords == <<"with", "that", "for", "and", "the", "app", "application">>

\* keywords.filter(word => word.length > 3 && !stopWords.includes(word))
RECURSIVE nameWordsOf(_)
nameWordsOf(keywords) ==
    IF Len(keywords) = 0 THEN << >>
    ELSE LET front == nameWordsOf(SubSeq(keywords, 1, Len(keywords) - 1))
             word == keywords[Len(keywords)]
         IN  pushIf(front,
                    /\ Len(word) > 3
                    /\ \A i \in 1..Len(stopWords) : stopWords[i] # word,
                    word)

\* word.charAt(0).toUpperCase() + word.slice(1)
capitalize(word) ==
    IF Len(word) = 0 THEN ""
    ELSE UpperCaseChar(SubSeq(word, 1, 1)) \o SubSeq(word, 2, Len(word))

\* words.map(capitalize).join('')
RECURSIVE joinCapitalized(_)
joinCapitalized(words) ==
    IF Len(words) = 0 THEN ""
    ELSE capitalize(words[1]) \o joinCapitalized(SubSeq(words, 2, Len(words)))

\* generateAppName with the filter applied to the first two words only
generateAppNameOfFirstTwoWords(ideaText) ==
    LET nameWords == nameWordsOf(slice(split(toLowerCase(ideaText)), 2))
    IN  IF Len(nameWords) = 0 THEN "MyApp" ELSE joinCapitalized(nameWords)

generateAppName(ideaText) ==
    LET nameWords == slice(nameWordsOf(split(toLowerCase(ideaText))), 2)
    IN  IF Len(nameWords) = 0 THEN "MyApp" ELSE joinCapitalized(nameWords)

GeneratedFile(filename, template, appName) ==
    [filename |-> filename, content |-> <<template, appName>>, path |-> "/"]

generateWebFiles(ideaText, appName) ==
    LET isTodoApp == includes(toLowerCase(ideaText), "todo")
        appCode == IF isTodoApp THEN "web todo app" ELSE "web list app"
    IN  << GeneratedFile("pages/index.js", appCode, appName),
           GeneratedFile("package.json", "web package.json", appName),
           GeneratedFile("next.config.js", "next.config.js", appName),
           GeneratedFile("vercel.json", "vercel.json", appName) >>

\* generateMobileFiles with the files of EAS for every build system
generateMobileFilesAlwaysEas(ideaText, appName, system) ==
    LET isTodoApp == includes(toLowerCase(ideaText), "todo")
        appCode == IF isTodoApp THEN "mobile todo app" ELSE "mobile list app"
    IN  << GeneratedFile("App.js", appCode, appName),
           GeneratedFile("package.json", "mobile package.json", appName),
           GeneratedFile("app.json", "app.json", appName),
           GeneratedFile("eas.json", "eas.json", appName) >>

generateMobileFiles(ideaText, appName, system) ==
    LET isTodoApp == includes(toLowerCase(ideaText), "todo")
        appCode == IF isTodoApp THEN "mobile todo app" ELSE "mobile list app"
        files == << GeneratedFile("App.js", appCode, appName),
                    GeneratedFile("package.json", "mobile package.json",
                                  appName) >>
    IN  IF system = "eas"
        THEN files \o << GeneratedFile("app.json", "app.json", appName),
                         GeneratedFile("eas.json", "eas.json", appName) >>
        ELSE files \o << GeneratedFile("capacitor.config.json",
                                       "capacitor.config.json", appName) >>

\* Object.entries(platforms).filter(([_, selected]) => selected)
\*     .map(([name, _]) => name): the keys are web, android, ios in this order
selectedPlatformsOf(platforms) ==
    pushIf(pushIf(pushIf(<< >>, platforms.web, "web"),
                  platforms.android, "android"),
           platforms.ios, "ios")

generateAppFromIdea(ideaText, platforms, system) ==
    LET appName == generateAppName(ideaText)
        webFiles == IF platforms.web
                    THEN generateWebFiles(ideaText, appName)
                    ELSE << >>
        mobileFiles == IF platforms.android \/ platforms.ios
                       THEN generateMobileFiles(ideaText, appName, system)
                       ELSE << >>
    IN  [name |-> appName,
         platforms |-> selectedPlatformsOf(platforms),
         buildCommand |->
             IF platforms.web THEN "vercel --prod"
             ELSE "eas build --platform "
                      \o (IF platforms.android /\ platforms.ios THEN "all"
                          ELSE IF platforms.android THEN "android"
                          ELSE "ios")
                      \o " --non-interactive",
         generatedFiles |-> webFiles \o mobileFiles,
         instructions |->
             IF platforms.web
             THEN "Deploy to Vercel: Connect your repository and deploy automatically."
             ELSE "Build with EAS: Run the build command and deploy to app stores.",
         assumptions |-> <<"Cloud-ready project structure",
                           "Automated build configuration",
                           "Cross-platform compatibility",
                           "Production-ready code">>]

\* find returning the last file of the name
findLast(files, selectedFile) ==
    LET found == { i \in 1..Len(files) : files[i].filename = selectedFile }
    IN  IF found = {} THEN Undefined
        ELSE files[CHOOSE i \in found : \A j \in found : j <= i]

\* generatedApp.generatedFiles.find(f => f.filename === selectedFile): the
\* first file of the name, undefined when there is none.
find(files, selectedFile) ==
    LET found == { i \in 1..Len(files) : files[i].filename = selectedFile }
    IN  IF found = {} THEN Undefined
        ELSE files[CHOOSE i \in found : \A j \in found : i <= j]

GeneratorInit ==
    /\ generatorArguments \in
           [idea : Ideas, platforms : PlatformFlags, buildSystem : BuildSystems]
    /\ generatorResult = Null
    /\ ConversationIdle
    /\ ExtractorIdle
    /\ PageIdle
    /\ RestIdle

\* generateAppFromIdea applied to the arguments.
GenerateApp ==
    /\ generatorResult = Null
    /\ generatorResult' =
           generateAppFromIdea(generatorArguments.idea,
                               generatorArguments.platforms,
                               generatorArguments.buildSystem)
    /\ UNCHANGED generatorArguments
    /\ UNCHANGED <<conversationVars, extractorVars, pageVars, restVars>>

GeneratorNext == GenerateApp

GeneratorSpec == GeneratorInit /\ [][GeneratorNext]_vars

----------------------------------------------------------------------------
(* Properties of the app generator. *)

StopWords == {"with", "that", "for", "and", "the", "app", "application"}

\* The words of a lower-cased text as the pairs <<first, last>> of their
\* places: the runs without a space that a space or an end of the text
\* bounds on either side.
WordsOf(s) ==
    { w \in (1..Len(s)) \X (1..Len(s)) :
        /\ w[1] <= w[2]
        /\ \A i \in w[1]..w[2] : SubSeq(s, i, i) # " "
        /\ w[1] = 1 \/ SubSeq(s, w[1] - 1, w[1] - 1) = " "
        /\ w[2] = Len(s) \/ SubSeq(s, w[2] + 1, w[2] + 1) = " " }

\* The words longer than 3 characters that are no stop words.
Surviving(s) ==
    { w \in WordsOf(s) :
        /\ w[2] - w[1] + 1 > 3
        /\ SubSeq(s, w[1], w[2]) \notin StopWords }

\* The n-th surviving word, its first letter in upper case; "" when there
\* are fewer.
SurvivorAt(s, n) ==
    LET nth == { w \in Surviving(s) :
                   Cardinality({ v \in Surviving(s) : v[1] < w[1] }) = n - 1 }
    IN  IF nth = {} THEN ""
        ELSE LET w == CHOOSE v \in nth : TRUE
             IN  UpperCaseChar(SubSeq(s, w[1], w[1]))
                     \o SubSeq(s, w[1] + 1, w[2])

\* For every idea, whether a word survives and the name the claim gives.
NameExpected ==
    [i \in Ideas |->
        LET s == LowerCaseOf(i)
        IN  [survives |-> Surviving(s) # {},
             name |-> IF Surviving(s) = {} THEN "MyApp"
                      ELSE SurvivorAt(s, 1) \o SurvivorAt(s, 2)]]

\* C15: the name of the generated app is the concatenation of the first two
\* words of the lower-cased idea, split at single spaces, that are longer
\* than 3 characters and no stop words, each capitalised; it is MyApp
\* exactly when no word survives; 'A simple todo app' gives SimpleTodo.
C15_AppName ==
    generatorResult # Null =>
        LET expected == NameExpected[generatorArguments.idea]
        IN  /\ generatorResult.name = expected.name
            /\ generatorResult.name = "MyApp" <=> ~expected.survives
            /\ generatorArguments.idea = "A simple todo app" =>
                   generatorResult.name = "SimpleTodo"

\* C15 witness: the app of 'A simple todo app' is named SimpleTodo.
C15_Witness ==
    /\ generatorResult # Null
    /\ generatorArguments.idea = "A simple todo app"
    /\ generatorResult.name = "SimpleTodo"

FileNames(files) == [i \in 1..Len(files) |-> files[i].filename]

\* C16: the generated files are the web block when web is selected, then
\* the mobile block when android or ios is selected, with app.json and
\* eas.json for eas and capacitor.config.json for capacitor; the main file
\* of a block is its todo template exactly when the lower-cased idea holds
\* 'todo'; the platforms of the app are the selected ones and every file
\* carries the name of the app: the result is a function of the arguments.
C16_GeneratedFiles ==
    generatorResult # Null =>
        LET arguments == generatorArguments
            files == generatorResult.generatedFiles
            todo == OccursIn(LowerCaseOf(arguments.idea), "todo")
            web == IF arguments.platforms.web
                   THEN <<"pages/index.js", "package.json", "next.config.js",
                          "vercel.json">>
                   ELSE << >>
            mobile == IF arguments.platforms.android \/ arguments.platforms.ios
                      THEN <<"App.js", "package.json">>
                               \o (IF arguments.buildSystem = "eas"
                                   THEN <<"app.json", "eas.json">>
                                   ELSE <<"capacitor.config.json">>)
                      ELSE << >>
        IN  /\ FileNames(files) = web \o mobile
            /\ \A i \in 1..Len(files) :
                   /\ files[i].content[2] = generatorResult.name
                   /\ files[i].filename = "pages/index.js" =>
                          files[i].content[1] =
                              (IF todo THEN "web todo app" ELSE "web list app")
                   /\ files[i].filename = "App.js" =>
                          files[i].content[1] =
                              (IF todo THEN "mobile todo app"
                               ELSE "mobile list app")
            /\ Range(generatorResult.platforms) =
                   { p \in Platforms : arguments.platforms[p] }

\* C16 witness: an app for web and android built with capacitor has the
\* four web files and the three mobile files, with the todo templates.
C16_Witness ==
    /\ generatorResult # Null
    /\ generatorArguments.platforms =
           [web |-> TRUE, android |-> TRUE, ios |-> FALSE]
    /\ generatorArguments.buildSystem = "capacitor"
    /\ Len(generatorResult.generatedFiles) = 7
    /\ generatorResult.generatedFiles[5].content[1] = "mobile todo app"

\* How often the name occurs among the filenames of the files.
Occurs(files, name) ==
    Cardinality({ i \in 1..Len(files) : files[i].filename = name })

\* C26: the filenames of the generated files are pairwise distinct when
\* web alone or mobile platforms alone are selected; when web and a mobile
\* platform are selected together, package.json occurs twice and every
\* other filename once, and the lookup of package.json by its filename
\* returns the package.json of the web files.
C26_Filenames ==
    generatorResult # Null =>
        LET files == generatorResult.generatedFiles
            web == generatorArguments.platforms.web
            mobile == \/ generatorArguments.platforms.android
                      \/ generatorArguments.platforms.ios
            names == { files[i].filename : i \in 1..Len(files) }
        IN  /\ ~(web /\ mobile) => \A n \in names : Occurs(files, n) = 1
            /\ (web /\ mobile) =>
                   /\ Occurs(files, "package.json") = 2
                   /\ \A n \in names \ {"package.json"} : Occurs(files, n) = 1
                   /\ find(files, "package.json").content[1] = "web package.json"
                   /\ find(files, "package.json") = files[2]

\* C26 witness: an app generated for web and ios holds two files named
\* package.json, the second one the package.json of the mobile files.
C26_Witness ==
    /\ generatorResult # Null
    /\ generatorArguments.platforms.web
    /\ generatorArguments.platforms.ios
    /\ Occurs(generatorResult.generatedFiles, "package.json") = 2
    /\ generatorResult.generatedFiles[6].content[1] = "mobile package.json"

----------------------------------------------------------------------------
(* The page: handleGenerate, startBuild and startAllBuilds.                *)
(*                                                                         *)
(* A handler runs to its next await in one step; the continuation after a  *)
(* timer is a step of its own, and the timers of different runs fire in    *)
(* any order.  The continuation after the last build step sets the         *)
(* progress to 100 and completes the build without an await in between:    *)
(* both updates of buildStatuses are one step.  The inputs of the page are *)
(* rendered only while generatedApp is null, the build buttons only when   *)
(* it is not.  previewMode, the spoken feedback and the messages of the    *)
(* build steps touch nothing modelled here.                                *)
(*                                                                         *)
(* The strings of the module are ASCII.  The character written ^ in a text *)
(* stands for a character with a code above 255, as the l with stroke or a *)
(* kana: it has no other case, it is no white space, and btoa does not     *)
(* take it.                                                                *)

\* At most MaxBuilds runs of startBuild or startAllBuilds are suspended at a
\* time.
MaxBuilds == 1

\* The texts the idea field is set to.
PageIdeas == { "", "   ", "A simple todo app", "^^^^ planner" }

Whitespace == {" ", "\t", "\n"}

\* s.trim()
RECURSIVE trim(_)
trim(s) ==
    IF Len(s) = 0 THEN s
    ELSE IF SubSeq(s, 1, 1) \in Whitespace THEN trim(SubSeq(s, 2, Len(s)))
    ELSE IF SubSeq(s, Len(s), Len(s)) \in Whitespace
    THEN trim(SubSeq(s, 1, Len(s) - 1))
    ELSE s

\* The test of handleGenerate with the idea not trimmed
missingInformationWithoutTrim(ideaText, platforms) ==
    \/ ideaText = ""
    \/ ~(platforms.web \/ platforms.android \/ platforms.ios)

\* !idea.trim() || !Object.values(platform).some(v => v)
missingInformation(ideaText, platforms) ==
    \/ trim(ideaText) = ""
    \/ ~(platforms.web \/ platforms.android \/ platforms.ios)

\* onChange of the idea field, and the example buttons
setIdea ==
    /\ generatedApp = Null
    /\ \E text \in PageIdeas : idea' = text
    /\ UNCHANGED <<platform, buildSystem, isGenerating, generatedApp,
                   buildStatuses, generation, builds, toast>>
    /\ UNCHANGED <<conversationVars, extractorVars, generatorVars, restVars>>

\* onClick of a platform button: setPlatform(prev => ({...prev, [id]: !prev[id]}))
setPlatform ==
    /\ generatedApp = Null
    /\ \E id \in {"web", "android", "ios"} :
           platform' = [platform EXCEPT ![id] = ~@]
    /\ UNCHANGED <<idea, buildSystem, isGenerating, generatedApp,
                   buildStatuses, generation, builds, toast>>
    /\ UNCHANGED <<conversationVars, extractorVars, generatorVars, restVars>>

\* onClick of a build system button
setBuildSystem ==
    /\ generatedApp = Null
    /\ \E id \in BuildSystems : buildSystem' = id
    /\ UNCHANGED <<idea, platform, isGenerating, generatedApp,
                   buildStatuses, generation, builds, toast>>
    /\ UNCHANGED <<conversationVars, extractorVars, generatorVars, restVars>>

\* handleGenerate up to its await, called by the Generate button, which is
\* disabled while isGenerating.
handleGenerate ==
    /\ generatedApp = Null
    /\ ~isGenerating
    /\ IF missingInformation(idea, platform)
       THEN /\ toast' = "Missing Information"
            /\ UNCHANGED <<isGenerating, generation>>
       ELSE /\ isGenerating' = TRUE
            /\ generation' = [idea |-> idea, platform |-> platform,
                              buildSystem |-> buildSystem]
            /\ UNCHANGED toast
    /\ UNCHANGED <<idea, platform, buildSystem, generatedApp, buildStatuses,
                   builds>>
    /\ UNCHANGED <<conversationVars, extractorVars, generatorVars, restVars>>

\* The initial statuses with one status for each of the three platforms
initialStatusesOfAllPlatforms(app) ==
    [i \in 1..3 |->
        [platform |-> <<"web", "android", "ios">>[i], status |-> "pending",
         progress |-> 0]]

\* app.platforms.map(p => ({platform: p, status: 'pending', progress: 0}))
initialStatuses(app) ==
    [i \in 1..Len(app.platforms) |->
        [platform |-> app.platforms[i], status |-> "pending", progress |-> 0]]

\* handleGenerate after its await: it generates from the idea, the platforms
\* and the build system of the render it was called in.
handleGenerateResumed ==
    /\ generation # Null
    /\ LET app == generateAppFromIdea(generation.idea, generation.platform,
                                      generation.buildSystem)
       IN  /\ generatedApp' = app
           /\ buildStatuses' = initialStatuses(app)
    /\ toast' = "App Generated Successfully!"
    /\ isGenerating' = FALSE
    /\ generation' = Null
    /\ UNCHANGED <<idea, platform, buildSystem, builds>>
    /\ UNCHANGED <<conversationVars, extractorVars, generatorVars, restVars>>

\* prev.map(status => status.platform === targetPlatform
\*                        ? { ...status, ...update } : status)
updateStatus(statuses, targetPlatform, update) ==
    [i \in 1..Len(statuses) |->
        IF statuses[i].platform = targetPlatform
        THEN Spread(statuses[i], update)
        ELSE statuses[i]]

\* buildStarted with the update applied to the status of every platform
buildStartedEverywhere(statuses, targetPlatform) ==
    [i \in 1..Len(statuses) |->
        Spread(statuses[i], [status |-> "building", progress |-> 0])]

\* startBuild up to its first await
buildStarted(statuses, targetPlatform) ==
    updateStatus(statuses, targetPlatform,
                 [status |-> "building", progress |-> 0])

buildSteps == <<20, 40, 60, 80, 100>>

\* The characters with a code above 255 among those of the texts.
AboveLatin1 == {"^"}

\* btoa throws on a string with a character above 255
InvalidCharacterError == [thrown |-> "InvalidCharacterError"]

\* The mock download URL: the build information it encodes.  JSON.stringify
\* leaves the characters of the name of the app as they are, and the other
\* texts of the build information are ASCII.
mockDownloadUrl(app, targetPlatform) ==
    IF \E i \in 1..Len(app.name) : SubSeq(app.name, i, i) \in AboveLatin1
    THEN InvalidCharacterError
    ELSE [appName |-> app.name, platform |-> targetPlatform]

\* startBuild after its last await
buildCompleted(statuses, app, targetPlatform) ==
    updateStatus(
        updateStatus(statuses, targetPlatform,
                     [progress |-> buildSteps[Len(buildSteps)]]),
        targetPlatform,
        [status |-> "completed", progress |-> 100,
         downloadUrl |-> mockDownloadUrl(app, targetPlatform)])

\* A run: the platforms it has still to build, the first of them being built,
\* and the number of build steps done for it; Len(buildSteps) steps done
\* stand for the delay of startAllBuilds after a build.
BuildRun(platforms) == [platforms |-> platforms, done |-> 0]

StatusOf(targetPlatform) ==
    { buildStatuses[i].status :
        i \in { j \in 1..Len(buildStatuses) :
                  buildStatuses[j].platform = targetPlatform } }

\* onClick of the Build button of a platform, rendered while its status is
\* pending
startBuild ==
    /\ generatedApp # Null
    /\ Len(builds) < MaxBuilds
    /\ \E i \in 1..Len(generatedApp.platforms) :
           LET targetPlatform == generatedApp.platforms[i]
           IN  /\ StatusOf(targetPlatform) = {"pending"}
               /\ buildStatuses' = buildStarted(buildStatuses, targetPlatform)
               /\ builds' = Append(builds, BuildRun(<<targetPlatform>>))
    /\ UNCHANGED <<idea, platform, buildSystem, isGenerating, generatedApp,
                   generation, toast>>
    /\ UNCHANGED <<conversationVars, extractorVars, generatorVars, restVars>>

\* onClick of Build All Platforms, up to the first await of its first
\* startBuild
startAllBuilds ==
    /\ generatedApp # Null
    /\ Len(builds) < MaxBuilds
    /\ buildStatuses' = buildStarted(buildStatuses, generatedApp.platforms[1])
    /\ builds' = Append(builds, BuildRun(generatedApp.platforms))
    /\ UNCHANGED <<idea, platform, buildSystem, isGenerating, generatedApp,
                   generation, toast>>
    /\ UNCHANGED <<conversationVars, extractorVars, generatorVars, restVars>>

Without(list, i) == SubSeq(list, 1, i - 1) \o SubSeq(list, i + 1, Len(list))

\* The continuation of a startBuild after the timer of a build step: the
\* progress of the step, and after the last step the completed build.  A
\* startBuild of its own ends there; so does the last one of startAllBuilds,
\* whose closing delay is followed by nothing.  When btoa throws, the
\* progress of the last step is set and nothing else: the promise of
\* startBuild is rejected, and with it the one of a startAllBuilds that
\* awaits it, which builds no further platform.
startBuildResumed ==
    /\ \E i \in 1..Len(builds) :
           LET run == builds[i]
               targetPlatform == run.platforms[1]
           IN  /\ run.done < Len(buildSteps)
               /\ IF run.done + 1 < Len(buildSteps)
                  THEN /\ buildStatuses' =
                              updateStatus(buildStatuses, targetPlatform,
                                  [progress |-> buildSteps[run.done + 1]])
                       /\ builds' = [builds EXCEPT ![i].done = @ + 1]
                       /\ UNCHANGED toast
                  ELSE IF mockDownloadUrl(generatedApp, targetPlatform)
                              = InvalidCharacterError
                  THEN /\ buildStatuses' =
                              updateStatus(buildStatuses, targetPlatform,
                                  [progress |-> buildSteps[run.done + 1]])
                       /\ builds' = Without(builds, i)
                       /\ UNCHANGED toast
                  ELSE /\ buildStatuses' =
                              buildCompleted(buildStatuses, generatedApp,
                                             targetPlatform)
                       /\ builds' =
                              IF Len(run.platforms) = 1
                              THEN Without(builds, i)
                              ELSE [builds EXCEPT ![i].done = @ + 1]
                       /\ toast' = "Build Completed!"
    /\ UNCHANGED <<idea, platform, buildSystem, isGenerating, generatedApp,
                   generation>>
    /\ UNCHANGED <<conversationVars, extractorVars, generatorVars, restVars>>

\* The continuation of startAllBuilds after its delay: the startBuild of the
\* next platform up to its first await.
startAllBuildsResumed ==
    /\ \E i \in 1..Len(builds) :
           LET run == builds[i]
           IN  /\ run.done = Len(buildSteps)
               /\ buildStatuses' = buildStarted(buildStatuses, run.platforms[2])
               /\ builds' = [builds EXCEPT ![i] = BuildRun(Tail(run.platforms))]
    /\ UNCHANGED <<idea, platform, buildSystem, isGenerating, generatedApp,
                   generation, toast>>
    /\ UNCHANGED <<conversationVars, extractorVars, generatorVars, restVars>>

PageInit ==
    /\ PageIdle
    /\ ConversationIdle
    /\ ExtractorIdle
    /\ GeneratorIdle
    /\ RestIdle

PageNext ==
    \/ setIdea
    \/ setPlatform
    \/ setBuildSystem
    \/ handleGenerate
    \/ handleGenerateResumed
    \/ startBuild
    \/ startAllBuilds
    \/ startBuildResumed
    \/ startAllBuildsResumed

PageSpec == PageInit /\ [][PageNext]_vars

\* The page when handleGenerate has completed: the states in which
\* handleGenerateResumed leaves the page, for every idea and selection it
\* accepts.
BuildInit ==
    /\ \E ideaText \in PageIdeas, platforms \in PlatformFlags,
          system \in BuildSystems :
           /\ ~missingInformation(ideaText, platforms)
           /\ idea = ideaText
           /\ platform = platforms
           /\ buildSystem = system
           /\ generatedApp = generateAppFromIdea(ideaText, platforms, system)
           /\ buildStatuses = initialStatuses(generatedApp)
    /\ isGenerating = FALSE
    /\ generation = Null
    /\ builds = << >>
    /\ toast = "App Generated Successfully!"
    /\ ConversationIdle
    /\ ExtractorIdle
    /\ GeneratorIdle
    /\ RestIdle

\* The steps of the page once an app is generated.
BuildNext ==
    \/ startBuild
    \/ startAllBuilds
    \/ startBuildResumed
    \/ startAllBuildsResumed

\* The builds with their timers: a timer that was set fires, so the
\* continuation that waits for it is taken.  The clicks of the user are
\* under no such condition.
BuildFairSpec ==
    /\ BuildInit
    /\ [][BuildNext]_vars
    /\ WF_vars(startBuildResumed)
    /\ WF_vars(startAllBuildsResumed)

----------------------------------------------------------------------------
(* Properties of the page. *)

\* The text has no character but white space.
Blank(s) == \A i \in 1..Len(s) : SubSeq(s, i, i) \in {" ", "\t", "\n"}

SelectedOf(flags) == { p \in Platforms : flags[p] }

\* C17: while the idea is empty or blank, or no platform is selected, no
\* step of the page, handleGenerate included, starts a generation:
\* isGenerating stays false and generatedApp and buildStatuses keep their
\* values.
C17_RejectedBeforeMutation ==
    [][ ( /\ generatedApp = Null
          /\ generation = Null
          /\ Blank(idea) \/ SelectedOf(platform) = {} )
        => /\ ~isGenerating
           /\ ~isGenerating'
           /\ generation' = Null
           /\ generatedApp' = generatedApp
           /\ buildStatuses' = buildStatuses ]_vars

\* C17 witness: handleGenerate has refused an idea of blanks with a platform
\* selected.
C17_Witness ==
    /\ toast = "Missing Information"
    /\ idea = "   "
    /\ platform.web
    /\ ~isGenerating
    /\ generatedApp = Null
    /\ buildStatuses = << >>

\* C18: the status of a platform passes through building with progress 0,
\* 20, 40, 60, 80, 100 and ends completed with progress 100: in every step
\* it stays, goes to the next of these states (the progress of 100 and the
\* completion may come at once), the progress never decreases, and a
\* download payload is attached only to a completed status with progress
\* 100.
C18_BuildSequence ==
    [][ \A i \in DOMAIN buildStatuses \cap DOMAIN buildStatuses' :
            LET before == buildStatuses[i]
                after == buildStatuses'[i]
            IN  /\ \/ after.status = before.status
                      /\ after.progress = before.progress
                   \/ /\ before.status = "pending"
                      /\ after.status = "building" /\ after.progress = 0
                   \/ /\ before.status = "building"
                      /\ after.status = "building"
                      /\ after.progress = before.progress + 20
                   \/ /\ before.status = "building"
                      /\ before.progress \in {80, 100}
                      /\ after.status = "completed" /\ after.progress = 100
                /\ after.progress >= before.progress
                /\ "downloadUrl" \in DOMAIN after =>
                       after.status = "completed" /\ after.progress = 100
      ]_vars

StatusRank(status) ==
    IF status = "pending" THEN 0 ELSE IF status = "building" THEN 1 ELSE 2

\* C19: whatever Build and Build All Platforms clicks are made, the status
\* of a platform only moves forward from pending to building to completed.
C19_StatusMovesForward ==
    [][ \A i \in DOMAIN buildStatuses \cap DOMAIN buildStatuses' :
            StatusRank(buildStatuses'[i].status)
                >= StatusRank(buildStatuses[i].status) ]_vars

PlatformOrder == [p \in Platforms |->
                     IF p = "web" THEN 1 ELSE IF p = "android" THEN 2 ELSE 3]

\* C20: when handleGenerate completes, buildStatuses holds one status for
\* each platform that was selected when it was called and none for another
\* one, in the order web, android, ios, each pending with progress 0 and
\* without a downloadUrl; the platforms of the generated app are these
\* platforms, and there is at least one.
C20_StatusesAfterGenerate ==
    [][ (generation # Null /\ generation' = Null) =>
            LET selected == SelectedOf(generation.platform)
            IN  /\ generatedApp' # Null
                /\ generatedApp'.platforms # << >>
                /\ Range(generatedApp'.platforms) = selected
                /\ Len(generatedApp'.platforms) = Cardinality(selected)
                /\ \A i, j \in 1..Len(generatedApp'.platforms) :
                       i < j => PlatformOrder[generatedApp'.platforms[i]]
                                    < PlatformOrder[generatedApp'.platforms[j]]
                /\ Len(buildStatuses') = Len(generatedApp'.platforms)
                /\ \A i \in 1..Len(buildStatuses') :
                       buildStatuses'[i] =
                           [platform |-> generatedApp'.platforms[i],
                            status |-> "pending", progress |-> 0] ]_vars

\* C20 witness: an app was generated for web and ios, its two statuses are
\* pending, and the selection on the page was changed while it was
\* generated.
C20_Witness ==
    /\ toast = "App Generated Successfully!"
    /\ generatedApp # Null
    /\ generatedApp.platforms = <<"web", "ios">>
    /\ Len(buildStatuses) = 2
    /\ \A i \in 1..2 : buildStatuses[i].status = "pending"
    /\ SelectedOf(platform) # {"web", "ios"}

\* The statuses are those a startAllBuilds run that is alone leaves while it
\* is at the platform run.platforms[1]: the platforms before it completed,
\* the platforms after it pending, and itself building, or completed during
\* the delay that follows its build.
AloneInRun(statuses, run) ==
    LET platforms == generatedApp.platforms
        k == Len(platforms) - Len(run.platforms) + 1
    IN  /\ k >= 1
        /\ run.platforms = SubSeq(platforms, k, Len(platforms))
        /\ \A j \in 1..Len(statuses) :
               statuses[j].status =
                   IF j < k THEN "completed"
                   ELSE IF j > k THEN "pending"
                   ELSE IF run.done = Len(buildSteps) THEN "completed"
                   ELSE "building"

\* C28: a startAllBuilds run that begins with every platform pending and
\* runs with no other build builds the platforms one after another in the
\* order of generatedApp.platforms: in each of its steps at most one platform
\* is building, a platform leaves pending only when all platforms before it
\* are completed, and only the status of the platform the run is at changes.
C28_OneAfterAnother ==
    [][ ( /\ generatedApp # Null
          /\ generatedApp' = generatedApp
          /\ buildStatuses' # buildStatuses
          /\ Len(builds') <= 1
          /\ \/ /\ builds = << >>
                /\ builds' = <<BuildRun(generatedApp.platforms)>>
                /\ \A j \in 1..Len(buildStatuses) :
                       buildStatuses[j].status = "pending"
             \/ /\ Len(builds) = 1
                /\ AloneInRun(buildStatuses, builds[1]) )
        => LET target == IF builds' # << >> THEN builds'[1].platforms[1]
                         ELSE builds[1].platforms[1]
           IN  /\ Cardinality({ j \in 1..Len(buildStatuses') :
                                  buildStatuses'[j].status = "building" }) <= 1
               /\ \A j \in 1..Len(buildStatuses) :
                      /\ ( /\ buildStatuses[j].status = "pending"
                           /\ buildStatuses'[j].status # "pending" )
                         => \A h \in 1..(j - 1) :
                                buildStatuses[h].status = "completed"
                      /\ buildStatuses'[j] # buildStatuses[j]
                         => buildStatuses[j].platform = target
               /\ builds' # << >> => AloneInRun(buildStatuses', builds'[1]) ]_vars

\* C28 witness: a run of startAllBuilds on an app of three platforms is at
\* its third platform, the two before it completed.
C28_Witness ==
    /\ generatedApp # Null
    /\ Len(generatedApp.platforms) = 3
    /\ Len(builds) = 1
    /\ AloneInRun(buildStatuses, builds[1])
    /\ Len(builds[1].platforms) = 1
    /\ builds[1].done = 2

\* The platform has a status with the given status.
HasStatus(p, status) ==
    \E j \in 1..Len(buildStatuses) :
        /\ buildStatuses[j].platform = p
        /\ buildStatuses[j].status = status

\* The build of the platform is completed with progress 100 and a download
\* payload.
Built(p) ==
    \E j \in 1..Len(buildStatuses) :
        /\ buildStatuses[j].platform = p
        /\ buildStatuses[j].status = "completed"
        /\ buildStatuses[j].progress = 100
        /\ "downloadUrl" \in DOMAIN buildStatuses[j]

\* C27: when the timers fire, every build that was started is completed
\* with progress 100 and a download payload at some later time, and no
\* status is ever failed.
C27_BuildsComplete ==
    /\ [](\A p \in Platforms : ~HasStatus(p, "failed"))
    /\ \A p \in Platforms : HasStatus(p, "building") ~> Built(p)

----------------------------------------------------------------------------
(* The voice input of the page.                                            *)
(*                                                                         *)
(* The page has two input tabs.  The text tab holds the idea field, its    *)
(* microphone button (startVoiceInput, stopVoiceInput) and the Generate    *)
(* button; the voice tab holds the voice component, whose events call      *)
(* handleVoiceTranscript and handleVoiceRequirementsExtracted, the         *)
(* transcript display and the button of generateAppFromVoice.              *)
(*                                                                         *)
(* A handler reads the state of the render it was made in: a set... call   *)
(* changes what the next render reads, never what the running handler      *)
(* reads.  The effect of the page depends on isListening: after a render   *)
(* with another isListening its cleanup runs, then the effect itself,      *)
(* which makes a new SpeechRecognition object whose handlers read the      *)
(* isListening of that render.  A SpeechRecognition object is idle,        *)
(* started, or stopping (stop() was called and its end event is still to   *)
(* come); an idle object that recognitionRef does not hold gets no event   *)
(* any more and is garbage.  onresult changes the idea field only, like    *)
(* setIdea, and is not a step of its own.                                  *)

\* At most MaxRecognitions SpeechRecognition objects are held at a time.
MaxRecognitions == 3

\* The transcripts the voice component reports.
VoiceTranscripts == { "A simple todo app", "Recipe manager with shopping lists" }

\* The requirements the voice component reports.
VoiceRequirements ==
    { [platforms |-> <<"web">>], [platforms |-> <<"android", "ios">>] }

\* onValueChange of the tabs
setInputMode ==
    /\ generatedApp = Null
    /\ \E value \in {"text", "voice"} :
           /\ value # inputMode
           /\ inputMode' = value
    /\ UNCHANGED <<voiceTranscript, voiceRequirements, isListening,
                   isRecording, recognitions, recognitionRef, effect>>
    /\ UNCHANGED <<calls, chatVars>>
    /\ UNCHANGED <<conversationVars, extractorVars, generatorVars, pageVars>>

\* handleVoiceTranscript; onEdit of the transcript display does the same
\* with the edited transcript.
handleVoiceTranscript ==
    /\ inputMode = "voice"
    /\ generatedApp = Null
    /\ \E transcript \in VoiceTranscripts :
           /\ voiceTranscript' = transcript
           /\ idea' = transcript
    /\ UNCHANGED <<platform, buildSystem, isGenerating, generatedApp,
                   buildStatuses, generation, builds, toast>>
    /\ UNCHANGED <<inputMode, voiceRequirements, isListening, isRecording,
                   recognitions, recognitionRef, effect>>
    /\ UNCHANGED <<calls, chatVars>>
    /\ UNCHANGED <<conversationVars, extractorVars, generatorVars>>

\* const newPlatform = { ...platform }; requirements.platforms.forEach(...)
newPlatform(flags, platforms) ==
    [p \in DOMAIN flags |->
        flags[p] \/ \E i \in 1..Len(platforms) : platforms[i] = p]

handleVoiceRequirementsExtracted ==
    /\ inputMode = "voice"
    /\ generatedApp = Null
    /\ \E requirements \in VoiceRequirements :
           /\ voiceRequirements' = requirements
           /\ platform' = newPlatform(platform, requirements.platforms)
    /\ UNCHANGED <<idea, buildSystem, isGenerating, generatedApp,
                   buildStatuses, generation, builds, toast>>
    /\ UNCHANGED <<inputMode, voiceTranscript, isListening, isRecording,
                   recognitions, recognitionRef, effect>>
    /\ UNCHANGED <<calls, chatVars>>
    /\ UNCHANGED <<conversationVars, extractorVars, generatorVars>>

\* onClick of Generate App from Voice, disabled while there are no voice
\* requirements or isGenerating: setIdea(voiceTranscript), then
\* handleGenerate() up to its await.  That handleGenerate is the one of the
\* render of the click and reads the idea of that render.
generateAppFromVoice ==
    /\ inputMode = "voice"
    /\ generatedApp = Null
    /\ voiceRequirements # Null
    /\ ~isGenerating
    /\ idea' = voiceTranscript
    /\ IF missingInformation(idea, platform)
       THEN /\ toast' = "Missing Information"
            /\ UNCHANGED <<isGenerating, generation>>
       ELSE /\ isGenerating' = TRUE
            /\ generation' = [idea |-> idea, platform |-> platform,
                              buildSystem |-> buildSystem]
            /\ UNCHANGED toast
    /\ UNCHANGED <<platform, buildSystem, generatedApp, buildStatuses, builds>>
    /\ UNCHANGED <<voiceVars, calls, chatVars>>
    /\ UNCHANGED <<conversationVars, extractorVars, generatorVars>>

\* The recognitions without the idle objects that the ref does not hold.
Live(objects, ref) ==
    [r \in { x \in DOMAIN objects : x = ref \/ objects[x].state # "idle" } |->
        objects[r]]

\* recognition.start(): an object that is not idle throws InvalidStateError
\* and stays as it is.
start(objects, r) ==
    IF objects[r].state = "idle"
    THEN [objects EXCEPT ![r].state = "started"]
    ELSE objects

\* recognition.stop(): a started object ends when its end event comes.
stop(objects, r) ==
    IF objects[r].state = "started"
    THEN [objects EXCEPT ![r].state = "stopping"]
    ELSE objects

\* onClick of the microphone button of the idea field while not recording
startVoiceInput ==
    /\ inputMode = "text"
    /\ generatedApp = Null
    /\ ~isRecording
    /\ effect = isListening
    /\ isListening' = TRUE
    /\ isRecording' = TRUE
    /\ recognitions' = start(recognitions, recognitionRef)
    /\ toast' = IF recognitions[recognitionRef].state = "idle"
                THEN "Voice Input Activated"
                ELSE toast
    /\ UNCHANGED <<inputMode, voiceTranscript, voiceRequirements,
                   recognitionRef, effect>>
    /\ UNCHANGED <<idea, platform, buildSystem, isGenerating, generatedApp,
                   buildStatuses, generation, builds>>
    /\ UNCHANGED <<calls, chatVars>>
    /\ UNCHANGED <<conversationVars, extractorVars, generatorVars>>

\* onClick of the microphone button while recording, or of Stop
stopVoiceInput ==
    /\ inputMode = "text"
    /\ generatedApp = Null
    /\ isRecording \/ isListening
    /\ effect = isListening
    /\ recognitions' = stop(recognitions, recognitionRef)
    /\ isListening' = FALSE
    /\ isRecording' = FALSE
    /\ toast' = "Voice Input Stopped"
    /\ UNCHANGED <<inputMode, voiceTranscript, voiceRequirements,
                   recognitionRef, effect>>
    /\ UNCHANGED <<idea, platform, buildSystem, isGenerating, generatedApp,
                   buildStatuses, generation, builds>>
    /\ UNCHANGED <<calls, chatVars>>
    /\ UNCHANGED <<conversationVars, extractorVars, generatorVars>>

\* The effect after a render with another isListening: the cleanup of its
\* last run stops the object of the ref, then a new object is made whose
\* handlers hold the isListening of this render, and put into the ref.
useEffect ==
    /\ effect # isListening
    /\ Cardinality(DOMAIN recognitions) < MaxRecognitions
    /\ LET stopped == stop(recognitions, recognitionRef)
           r == CHOOSE x \in 1..MaxRecognitions : x \notin DOMAIN recognitions
       IN  /\ recognitions' =
                  Live([x \in DOMAIN stopped \cup {r} |->
                           IF x = r
                           THEN [state |-> "idle", isListening |-> isListening]
                           ELSE stopped[x]],
                       r)
           /\ recognitionRef' = r
    /\ effect' = isListening
    /\ UNCHANGED <<inputMode, voiceTranscript, voiceRequirements, isListening,
                   isRecording>>
    /\ UNCHANGED <<calls, chatVars>>
    /\ UNCHANGED <<conversationVars, extractorVars, generatorVars, pageVars>>

\* onerror of a recognition object
onerror ==
    /\ \E r \in DOMAIN recognitions :
           /\ recognitions[r].state # "idle"
           /\ recognitions' = [recognitions EXCEPT ![r].state = "stopping"]
    /\ isListening' = FALSE
    /\ isRecording' = FALSE
    /\ toast' = "Voice Recognition Error"
    /\ UNCHANGED <<inputMode, voiceTranscript, voiceRequirements,
                   recognitionRef, effect>>
    /\ UNCHANGED <<idea, platform, buildSystem, isGenerating, generatedApp,
                   buildStatuses, generation, builds>>
    /\ UNCHANGED <<calls, chatVars>>
    /\ UNCHANGED <<conversationVars, extractorVars, generatorVars>>

\* onend of a recognition object, whose session ended by itself or after
\* stop(): if (isListening) recognitionRef.current.start(), with the
\* isListening of the render the object was made in.
onend ==
    /\ \E r \in DOMAIN recognitions :
           /\ recognitions[r].state # "idle"
           /\ LET ended == [recognitions EXCEPT ![r].state = "idle"]
              IN  recognitions' =
                      Live(IF recognitions[r].isListening
                           THEN start(ended, recognitionRef)
                           ELSE ended,
                           recognitionRef)
    /\ UNCHANGED <<inputMode, voiceTranscript, voiceRequirements, isListening,
                   isRecording, recognitionRef, effect>>
    /\ UNCHANGED <<calls, chatVars>>
    /\ UNCHANGED <<conversationVars, extractorVars, generatorVars, pageVars>>

\* The two tabs with the handlers that lead to a generation.
VoiceNext ==
    \/ setInputMode
    \/ (inputMode = "text" /\ setIdea)
    \/ (inputMode = "text" /\ handleGenerate)
    \/ handleGenerateResumed
    \/ handleVoiceTranscript
    \/ handleVoiceRequirementsExtracted
    \/ generateAppFromVoice

VoiceSpec == Init /\ [][VoiceNext]_vars

\* The text tab with the speech recognition of the idea field.
RecognitionNext ==
    \/ setIdea
    \/ startVoiceInput
    \/ stopVoiceInput
    \/ useEffect
    \/ onerror
    \/ onend

RecognitionSpec == Init /\ [][RecognitionNext]_vars

----------------------------------------------------------------------------
(* Properties of the voice input. *)

\* C23: while voice input is on, that is while isListening is true,
\* recognition runs: a recognition object is started, or the session of one
\* is ending and its end is still to come.
C23_RecognitionKeptRunning ==
    isListening =>
        \E r \in DOMAIN recognitions : recognitions[r].state # "idle"

\* C24: a generation started by generateAppFromVoice when there is a voice
\* transcript generates from that transcript, whatever the idea field held
\* before the click.
C24_GeneratesFromTranscript ==
    [][ ( /\ inputMode = "voice"
          /\ voiceTranscript # ""
          /\ generation = Null
          /\ generation' # Null )
        => generation'.idea = voiceTranscript ]_vars

----------------------------------------------------------------------------
(* The conversation dialog of the page: handleSend of ConversationDialog,    *)
(* handleConversationMessage with its reply timer, and the replies of the    *)
(* voice component.  conversationMessages is the list of {role, content};    *)
(* timers are the pending timeouts of handleConversationMessage in the       *)
(* order they were set, each holding the message of its closure.  All have   *)
(* the delay of one second, so they fire in the order they were set.         *)

MaxChat == 3

\* The texts of the input field of the dialog.
ChatInputs == { "  ", "hello", " A todo app ", "this recipe" }

\* The messages of the voice component's conversationResponse; they come
\* from the server, whose sentences are not those of the page.
VoiceResponses == { AskPlatformsContent }

HelloReply ==
    "Hello! I'm here to help you create your perfect app. Tell me what you have in mind!"

TodoReply ==
    "A todo app sounds great! I can help you create a task management system. Would you like features like reminders, categories, and due dates?"

RecipeReply ==
    "A recipe manager is an excellent idea! I can include features like ingredient lists, cooking instructions, and shopping lists. What else would you like it to do?"

FitnessReply ==
    "A fitness tracker would be awesome! I can build exercise logging, progress tracking, and workout planning features. What specific exercises do you want to track?"

InterestingReply ==
    "That sounds interesting! Tell me more about what features you'd like in your app, and I'll help you create something amazing."

\* generateAIResponse of the page, computed
AIResponseOf(userMessage) ==
    LET lowerMessage == toLowerCase(userMessage)
    IN  IF includes(lowerMessage, "hello") \/ includes(lowerMessage, "hi")
        THEN HelloReply
        ELSE IF includes(lowerMessage, "todo") THEN TodoReply
        ELSE IF includes(lowerMessage, "recipe") THEN RecipeReply
        ELSE IF includes(lowerMessage, "fitness")
                    \/ includes(lowerMessage, "workout")
        THEN FitnessReply
        ELSE InterestingReply

\* The replies are computed once for the messages of the model and looked
\* up afterwards.
Replies ==
    [message \in { trim(inputMessage) : inputMessage \in ChatInputs } |->
        AIResponseOf(message)]

generateAIResponseOfPage(userMessage) ==
    IF userMessage \in DOMAIN Replies
    THEN Replies[userMessage]
    ELSE AIResponseOf(userMessage)

\* A timeout set ahead of the pending ones
setTimeoutAhead(pending, message) == <<message>> \o pending

\* setTimeout(() => ..., 1000)
setTimeout(pending, message) == Append(pending, message)

\* handleSend of the dialog with the handleConversationMessage it calls.
\* The list is as long as the bound allows.
handleConversationMessage ==
    /\ \E inputMessage \in ChatInputs :
           IF trim(inputMessage) = "" \/ isGenerating
           THEN UNCHANGED chatVars
           ELSE LET message == trim(inputMessage)
                IN  /\ Len(conversationMessages) + Len(timers) + 2
                           <= 2 * MaxChat
                    /\ conversationMessages' =
                           Append(conversationMessages,
                                  [role |-> "user", content |-> message])
                    /\ timers' = setTimeout(timers, message)
    /\ UNCHANGED <<calls, voiceVars>>
    /\ UNCHANGED <<conversationVars, extractorVars, generatorVars, pageVars>>

\* The callback of the timer that is due first.
handleConversationMessageTimer ==
    /\ timers # << >>
    /\ LET aiResponse == generateAIResponseOfPage(Head(timers))
       IN  conversationMessages' =
               Append(conversationMessages,
                      [role |-> "assistant", content |-> aiResponse])
    /\ timers' = Tail(timers)
    /\ UNCHANGED <<calls, voiceVars>>
    /\ UNCHANGED <<conversationVars, extractorVars, generatorVars, pageVars>>

handleVoiceConversationResponse ==
    /\ Len(conversationMessages) + Len(timers) < 2 * MaxChat
    /\ \E message \in VoiceResponses :
           conversationMessages' =
               Append(conversationMessages,
                      [role |-> "assistant", content |-> message])
    /\ UNCHANGED timers
    /\ UNCHANGED <<calls, voiceVars>>
    /\ UNCHANGED <<conversationVars, extractorVars, generatorVars, pageVars>>

ChatNext ==
    \/ handleConversationMessage
    \/ handleConversationMessageTimer
    \/ handleVoiceConversationResponse

\* The timers fire.
ChatFairSpec ==
    Init /\ [][ChatNext]_vars /\ WF_vars(handleConversationMessageTimer)

----------------------------------------------------------------------------
(* Properties of the conversation dialog. *)

\* The positions of the messages of a role, in the order of the list
RECURSIVE PositionsOf(_, _, _)
PositionsOf(messages, wanted, i) ==
    IF i > Len(messages) THEN << >>
    ELSE IF wanted[i] THEN <<i>> \o PositionsOf(messages, wanted, i + 1)
    ELSE PositionsOf(messages, wanted, i + 1)

UserPositions(messages) ==
    PositionsOf(messages,
                [i \in 1..Len(messages) |-> messages[i].role = "user"], 1)

\* The replies of the timers: the assistant messages that are not the voice
\* component's.
ReplyPositions(messages) ==
    PositionsOf(messages,
                [i \in 1..Len(messages) |->
                    /\ messages[i].role = "assistant"
                    /\ messages[i].content \notin VoiceResponses], 1)

\* The k-th user message has its reply.
Replied(k) ==
    LET users == UserPositions(conversationMessages)
        replies == ReplyPositions(conversationMessages)
    IN  /\ k <= Len(replies)
        /\ users[k] < replies[k]
        /\ conversationMessages[replies[k]].content =
               generateAIResponseOfPage(conversationMessages[users[k]].content)

\* C29: a handleConversationMessage call appends its user message at once;
\* the replies of the timers are those of the user messages in their order,
\* each after its user message, one for each user message whose timer has
\* fired and none for the others, so there are never more replies than user
\* messages; and every user message gets its reply in the end.
C29_OneReplyEach ==
    /\ [](LET users == UserPositions(conversationMessages)
              replies == ReplyPositions(conversationMessages)
          IN  /\ Len(replies) + Len(timers) = Len(users)
              /\ \A k \in 1..Len(replies) : Replied(k)
              /\ \A j \in 1..Len(timers) :
                     timers[j] =
                         conversationMessages[users[Len(replies) + j]].content)
    /\ [][ Len(timers') > Len(timers)
             => /\ Len(conversationMessages') = Len(conversationMessages) + 1
                /\ conversationMessages'[Len(conversationMessages')] =
                       [role |-> "user",
                        content |-> timers'[Len(timers')]] ]_vars
    /\ \A k \in 1..MaxChat :
           (Len(UserPositions(conversationMessages)) >= k) ~> Replied(k)

\* Two user messages were sent before the first timer fired, and both have
\* their replies.
C29_Witness ==
    /\ timers = << >>
    /\ Len(conversationMessages) = 4
    /\ conversationMessages[1] = [role |-> "user", content |-> "this recipe"]
    /\ conversationMessages[2] = [role |-> "user", content |-> "A todo app"]
    /\ conversationMessages[3] =
           [role |-> "assistant", content |-> HelloReply]
    /\ conversationMessages[4] =
           [role |-> "assistant", content |-> TodoReply]

====
